---- MODULE Spec2Model ----
(***************************************************************************)
(* Model of the Smart Dashboards energy enforcement engine                 *)
(* (custom_components/smart_dashboards).                                   *)
(*                                                                         *)
(* SpecStove   : EnergyMonitor._check_stove_safety, one stove outlet with  *)
(*               a paired microwave outlet in the same room.               *)
(* SpecGate    : tts_queue, the announcements to one media player: the      *)
(*               immediate path of async_send_tts_or_queue, the queue and  *)
(*               the poll tasks of TTSPendingQueue.                        *)
(* SpecMonitor : EnergyMonitor._monitor_loop and the passes of             *)
(*               _check_energy on a time line, with the plug and breaker   *)
(*               shutoff cycles, for two rooms with one plug each and one  *)
(*               breaker line carrying both plugs.                         *)
(* SpecLights  : EnergyMonitor._async_send_tts_with_lights, one            *)
(*               announcement in light-warning mode with two lights.       *)
(* SpecLedger  : ConfigManager's energy ledger, event counts, enforcement  *)
(*               state and daily totals over days, passes, dashboard       *)
(*               queries and a restart.                                    *)
(* SpecHistory : the same passes on an installation whose history of       *)
(*               daily totals is nearly full.                              *)
(* SpecConfig  : ConfigManager.async_update_energy and async_load on the    *)
(*               rooms, outlets, breaker lines and breaker panel size.     *)
(* SpecRoom    : the passes of _check_energy over one room with a budget,  *)
(*               thresholds and power enforcement: the plug shutoff, the   *)
(*               outlet and room warnings, the enforcement phases, the     *)
(*               event counts and the event log.                           *)
(* SpecCycle   : EnergyMonitor._power_cycle_room_outlets over the outlets  *)
(*               of one room.                                              *)
(* SpecKwh     : the kWh milestones of one room and the whole-home limit   *)
(*               in _check_power_enforcement, over passes and days.        *)
(* SpecIntraday: ConfigManager.record_intraday_power for two entities over *)
(*               a few minutes.                                            *)
(***************************************************************************)
EXTENDS Integers, Sequences, FiniteSets, TLC

(***************************************************************************)
(* Bounds of the model.                                                    *)
(***************************************************************************)
\* number of evaluation passes of the stove state machine that are explored
MaxStoveTicks == 5
\* seconds of the monitor's time line that are explored
MaxClock == 5
\* failing passes that the history counts
MaxFailedPasses == 2
\* announcements submitted for the media player
MaxRequests == 3
\* seconds of the announcement gate's time line that are explored
MaxGateClock == 4
\* changes of the local date on the ledger's time line
MaxDay == 2
\* passes of the monitor that write to the ledger
MaxLedgerPasses == 3
\* warnings and shutoffs that are counted
MaxEvents == 1
\* restarts of the integration
MaxRestarts == 1
\* passes of _check_energy over the room
MaxRoomPasses == 3
\* changes of the local date on the room's time line
MaxRoomDays == 1
\* entries the event log keeps (_event_log_max_entries)
EventLogKept == 1
\* outlets of the room whose outlets are power-cycled
MaxCycleOutlets == 2
\* passes of the monitor that look at the kWh milestones
MaxKwhPasses == 4
\* changes of the local date on the milestones' time line
MaxKwhDays == 1
\* the last minute of the intraday time line
MaxIntradayMinute == 3
\* entries an entity's intraday history keeps (1440 in record_intraday_power)
IntradayKept == 2

(***************************************************************************)
(* Values read from the host platform and from the configuration.          *)
(***************************************************************************)
\* a dict entry holding Python None (no timestamp)
None == -1

\* seconds between two evaluation passes: the loop sleeps ENERGY_CHECK_INTERVAL
\* after a pass, and a pass that awaits service calls or delays takes longer
TickGaps == {1, 60}

\* stove plug readings (W): at the threshold and above it
StovePowerReadings == {100, 1200}
\* microwave plug readings (W): at the threshold and above it
MicrowavePowerReadings == {50, 900}
\* presence sensor states
PresenceStates == {"detected", "on", "off"}

\* stove_outlet.get("stove_power_threshold", 100)
stove_power_threshold == 100
\* mw_outlet.get("microwave_power_threshold", 50)
microwave_power_threshold == 50
\* stove_outlet.get("cooking_time_minutes", ...): one minute
cooking_time_minutes == 1
\* stove_outlet.get("final_warning_seconds", ...)
final_warning_seconds == 2
\* stove_outlet.get("timer_start_window_seconds", ...), validated to 1..120
timer_start_window_seconds == 1
\* stove_outlet.get("stove_off_debounce_seconds", ...)
stove_off_debounce_seconds == 2

Max(a, b) == IF a >= b THEN a ELSE b
Min(a, b) == IF a <= b THEN a ELSE b

cooking_time_sec == Max(1, cooking_time_minutes) * 60
final_warning_sec == Max(1, Min(final_warning_seconds, 300))

\* the stove outlet's configuration: whether shutoff is enabled, whether the
\* microwave interlock is enabled, whether the room has a media player, and
\* the on-debounce
StoveConfigs ==
    [stove_safety_enabled : BOOLEAN,
     microwave_safety_enabled : BOOLEAN,
     media_player : BOOLEAN,
     stove_on_debounce_seconds : {0, 1}]

VARIABLES
    now,        \* dt_util.now(), in seconds
    cfg,        \* the stove outlet's configuration
    stove,      \* the _stove_* dictionaries' entries for the stove's key
    calls,      \* service calls and announcements of the last pass, in order
    raised,     \* whether the last pass ended by an exception leaving it
    inp,        \* the readings the last pass saw
    ticks,      \* passes so far
    obs         \* history: the current run of passes with the stove on and
                \* nobody present

stoveVars == <<now, cfg, stove, calls, raised, inp, ticks, obs>>

\* const.py
ENERGY_CHECK_INTERVAL == 1
SHUTOFF_RESET_DELAY == 5
ALERT_COOLDOWN == 60

\* energy_config["rooms"]: each room has a media player and one outlet with
\* plug1_entity, plug1_switch, plug1_shutoff > 0 and threshold > 0
RoomIds == <<"r1", "r2">>
\* energy_config["breaker_lines"]: one line, max_load > 0 and threshold > 0
BreakerIds == {"b1"}
\* outlet["plug1_switch"] of the room's outlet
PlugSwitch == [r \in {"r1", "r2"} |-> IF r = "r1" THEN "switch.r1" ELSE "switch.r2"]
Switches == {PlugSwitch[RoomIds[i]] : i \in 1..Len(RoomIds)}
\* f"{room_id}_{outlet_name}_{plug_name}"
ShutoffKey(r) == <<r, "Outlet", "Plug 1">>
ShutoffKeys == {ShutoffKey(RoomIds[i]) : i \in 1..Len(RoomIds)}
\* the switches of config_manager.get_outlets_for_breaker(breaker_id)
BreakerSwitches(b) == Switches

\* what a pass evaluates, in order: every room, the breaker lines, the stove
\* check and the enforcement check
AllStages == {RoomIds[i] : i \in 1..Len(RoomIds)} \cup BreakerIds \cup {"stove", "enforcement"}

\* plug1_watts against the outlet's threshold and plug1_shutoff (threshold <
\* plug1_shutoff), and the breaker's total against threshold and max_load
PowerLevels == {"low", "over_threshold", "over_shutoff"}
NoRoomLocal == [budget_exceeded |-> FALSE, plug1 |-> "low"]

VARIABLES
    clock,      \* time in seconds on the monitor's time line
    running,    \* self._running
    pc,         \* where the task self._task running _monitor_loop stands
    stage,      \* index of the room the pass is evaluating, 0 outside rooms
    wake,       \* when the asyncio.sleep the task is awaiting ends
    shutoff_pending,            \* self._shutoff_pending
    breaker_shutoff_pending,    \* self._breaker_shutoff_pending
    last_outlet_alerts,         \* self._last_outlet_alerts
    last_breaker_warnings,      \* self._last_breaker_warnings
    last_breaker_shutoffs,      \* self._last_breaker_shutoffs
    switch_on,  \* the switches as last commanded by switch.turn_on/turn_off
    room_budget_announced,      \* self._room_budget_announced
    room_local, \* budget_exceeded and plug1_watts of the room being evaluated
    mcalls,     \* switch service calls of the last step, in order
    hist        \* history of the current pass and of the cycles

monitorVars ==
    <<clock, running, pc, stage, wake, shutoff_pending, breaker_shutoff_pending,
      last_outlet_alerts, last_breaker_warnings, last_breaker_shutoffs,
      switch_on, room_budget_announced, room_local, mcalls, hist>>

\* tts_queue.py
POLL_INTERVAL == 1
MIN_TTS_INTERVAL == 3
\* tts_helper.py
READY_FOR_TTS_STATES_NoStandby == {"on", "idle"}
READY_FOR_TTS_STATES == {"on", "idle", "standby"}
\* states a media player reports
PlayerStates == {"on", "idle", "standby", "playing", "off"}

VARIABLES
    gate_now,       \* time.monotonic(), in seconds
    player_state,   \* hass.states.get(media_player).state
    queues,         \* self._queues[media_player], the requests by number
    poll_tasks,     \* self._poll_tasks[media_player]: a task of tasks, or None
    tasks,          \* the poll tasks created so far, in order of creation
    sending,        \* media_player in self._sending
    last_send_time, \* self._last_send_time.get(media_player)
    requests,       \* the calls of async_send_tts_or_queue, in order
    sent_order      \* history: the requests in the order their dispatch began

gateVars ==
    <<gate_now, player_state, queues, poll_tasks, tasks, sending,
      last_send_time, requests, sent_order>>

(***************************************************************************)
(* The responsive lights of one room during an announcement in light-      *)
(* warning mode (EnergyMonitor._async_send_tts_with_lights).               *)
(***************************************************************************)
\* the room's WRGB lights (_get_wrgb_light_entities)
LightIds == {"light.a", "light.b"}

\* the room's responsive_light_color and responsive_light_temp
WarningRgb == "warning_rgb"
WarningKelvin == "warning_kelvin"

\* colour values a light can have before the announcement
RgbValues == {"rgb_1", "rgb_2"}
KelvinValues == {"kelvin_1"}

\* a light the platform does not know (hass.states.get returns None)
UnknownLight == [state |-> "none", color_mode |-> "none", value |-> "none"]
\* a light that is off reports no colour attributes
OffLight == [state |-> "off", color_mode |-> "none", value |-> "none"]

\* the states of a light entity: on with an RGB colour or a colour temperature
LightStates ==
    {UnknownLight, OffLight}
        \cup [state : {"on"}, color_mode : {"rgb"}, value : RgbValues \cup {WarningRgb}]
        \cup [state : {"on"}, color_mode : {"color_temp"},
              value : KelvinValues \cup {WarningKelvin}]

VARIABLES
    lights,         \* entity id -> state of the light entity
    restore_data,   \* restore_data of _do_lights_and_tts, None before the capture
    do_pc,          \* position of _do_lights_and_tts
    tts_task,       \* the task of async_send_tts
    light_task,     \* position of the task of _async_light_warning_loop
    prior           \* history: the lights when restore_data was captured

lightVars == <<lights, restore_data, do_pc, tts_task, light_task, prior>>

(***************************************************************************)
(* The day's energy ledger, event counts and enforcement state of          *)
(* ConfigManager, their files, and the history of daily totals.  A date is *)
(* the number of the day; energy is counted in watt-seconds (1/3600 Wh).   *)
(***************************************************************************)
\* the ledger keys of the configured room: the two plugs of its outlet
LedgerRoom == "r1"
LedgerKeys == <<"plug1", "plug2">>

\* the readings a plug can give, in watts; a pass adds them with
\* elapsed_seconds = 1.0
Watts == {0, 60}

\* the monitor saves the persistent data on every 15th pass
SAVE_EVERY_PASSES == 15

\* a dict without entries
EmptyDict == <<>>

\* the event counts of a day without events
ZeroEventCounts ==
    [total_warnings |-> 0, total_shutoffs |-> 0,
     room_warnings |-> EmptyDict, room_shutoffs |-> EmptyDict]

\* what the loaders find when a file does not exist: the fields keep the
\* values of __init__
NoCountsFile == [last_reset_date |-> None, counts |-> ZeroEventCounts]
NoEnforcementFile == [reset_date |-> None, rooms |-> EmptyDict]

\* passes the monitor has made since it last saved, at the start
SaveCounterStarts == {0, SAVE_EVERY_PASSES - 1}

VARIABLES
    today,                      \* dt_util.now().strftime("%Y-%m-%d")
    day_energy_data,            \* _day_energy_data: key -> energy
    last_reset_date,            \* _last_reset_date
    event_counts,               \* _event_counts
    event_counts_reset_date,    \* _event_counts_reset_date
    enforcement_state,          \* _enforcement_state: room -> number of warnings
    enforcement_reset_date,     \* _enforcement_reset_date
    daily_totals,               \* _daily_totals and its file: date -> totals
    energy_file,                \* smart_dashboards_energy_tracking.json
    counts_file,                \* smart_dashboards_event_counts.json
    enforcement_file,           \* smart_dashboards_enforcement_state.json
    pass_pc,                    \* position of the pass of _check_energy
    save_counter,               \* EnergyMonitor._save_counter
    ledger_hist                 \* history of the ledger

ledgerVars ==
    <<today, day_energy_data, last_reset_date, event_counts,
      event_counts_reset_date, enforcement_state, enforcement_reset_date,
      daily_totals, energy_file, counts_file, enforcement_file, pass_pc,
      save_counter, ledger_hist>>

(***************************************************************************)
(* The energy configuration of ConfigManager and its file: the rooms with  *)
(* their outlets, the breaker lines and the breaker panel size.  A key     *)
(* that a dict does not hold is written None, which is what dict.get       *)
(* returns for it.                                                         *)
(***************************************************************************)
VARIABLES
    energy_config,      \* self._config["energy"]
    config_file         \* the "energy" entry of smart_dashboards.json

configVars == <<energy_config, config_file>>

(***************************************************************************)
(* One room with a media player, a kWh budget, a room threshold and one    *)
(* outlet of type "outlet" with two plugs, under power enforcement.  Time  *)
(* is in seconds, a date is the number of the day, energy is counted in    *)
(* watt-seconds.                                                           *)
(***************************************************************************)
\* room["threshold"], outlet["threshold"] and outlet["plug1_shutoff"], in
\* watts; plug2_shutoff is 0 (no shutoff for plug 2)
room_threshold == 50
outlet_threshold == 100
plug1_shutoff == 70
\* room["kwh_budget"], in watt-seconds
kwh_budget == 100
\* what the two power sensors can read on a pass, in watts
PlugReadings == [plug1 : {0, 80}, plug2 : {0, 60}]
\* the energy the ledger file can hold for the room when it is loaded
LoadedEnergy == {0, kwh_budget}
\* power_enforcement["phase2_cycle_delay_seconds"]
phase2_cycle_delay_seconds == 5
\* power_enforcement["phase1_volume_increment"]
phase1_volume_increment == 20
\* room["volume"] and power_enforcement["phase2_max_volume"], in percent
room_volume == 70
phase2_max_volume == 90

VARIABLES
    room_now,           \* dt_util.now(), in seconds
    room_today,         \* dt_util.now().strftime("%Y-%m-%d")
    power_enforcement,  \* energy_config["power_enforcement"]
    room_energy,        \* _day_energy_data of the two plugs, and _last_reset_date
    room_counts,        \* _event_counts of the room, and _event_counts_reset_date
    event_log,          \* _event_log, the latest entries
    enforcement,        \* _enforcement_state[room], and _enforcement_reset_date
    last_alerts,        \* _last_room_alerts[room] and _last_outlet_alerts[key]
    plug_pending,       \* _shutoff_pending of plug 1
    budget_announced,   \* _room_budget_announced and its date
    rpc,                \* where the pass of _check_energy stands
    room_wake,          \* when the asyncio.sleep the task is awaiting ends
    room_pass,          \* the locals of the pass
    room_calls,         \* service calls and announcements of the last step
    room_hist           \* history of the passes and of the room warnings

roomVars ==
    <<room_now, room_today, power_enforcement, room_energy, room_counts,
      event_log, enforcement, last_alerts, plug_pending, budget_announced, rpc,
      room_wake, room_pass, room_calls, room_hist>>

(***************************************************************************)
(* The enforcement power cycle of one room: the outlets of the room, the   *)
(* switch service calls of _power_cycle_room_outlets and its sleep.        *)
(***************************************************************************)
VARIABLES
    cycle_outlets,      \* room["outlets"]
    cycle_pc,           \* where _power_cycle_room_outlets stands
    cycle_now,          \* the clock, in seconds
    cycle_wake,         \* when its asyncio.sleep ends
    cycle_calls         \* the switch service calls it has issued

cycleVars == <<cycle_outlets, cycle_pc, cycle_now, cycle_wake, cycle_calls>>

(***************************************************************************)
(* The kWh milestones of one enforcement-enabled room, which is the only   *)
(* room of the home, and the whole-home limit.  Energy is in kWh.          *)
(***************************************************************************)
\* power_enforcement["home_kwh_limit"]
home_kwh_limit == 12

VARIABLES
    kwh_today,          \* dt_util.now().strftime("%Y-%m-%d")
    kwh_ledger,         \* the room's energy in _day_energy_data, and _last_reset_date
    kwh_state,          \* kwh_alerts_sent, _home_kwh_alert_sent, _enforcement_reset_date
    kwh_pc,             \* where the pass of _check_energy stands
    kwh_calls,          \* the announcements of the last step
    kwh_hist            \* history: passes, days, and the alerts announced per date

kwhVars == <<kwh_today, kwh_ledger, kwh_state, kwh_pc, kwh_calls, kwh_hist>>

VARIABLES
    intraday_now,           \* dt_util.now(), in seconds
    intraday_history,       \* _intraday_history: entity id -> [(minute_key, watts)]
    intraday_last_minute,   \* _intraday_last_minute
    intraday_recorded       \* history: per entity, the last watts recorded in
                            \* each minute

intradayVars ==
    <<intraday_now, intraday_history, intraday_last_minute, intraday_recorded>>

\* the variables of the specifications that follow SpecRoom
furtherVars == <<cycleVars, kwhVars, intradayVars>>

vars ==
    <<stoveVars, monitorVars, gateVars, lightVars, ledgerVars, configVars,
      roomVars, furtherVars>>
restOfStove ==
    <<monitorVars, gateVars, lightVars, ledgerVars, configVars, roomVars,
      furtherVars>>
restOfMonitor ==
    <<stoveVars, gateVars, lightVars, ledgerVars, configVars, roomVars,
      furtherVars>>
restOfGate ==
    <<stoveVars, monitorVars, lightVars, ledgerVars, configVars, roomVars,
      furtherVars>>
restOfLights ==
    <<stoveVars, monitorVars, gateVars, ledgerVars, configVars, roomVars,
      furtherVars>>
restOfLedger ==
    <<stoveVars, monitorVars, gateVars, lightVars, configVars, roomVars,
      furtherVars>>
restOfConfig ==
    <<stoveVars, monitorVars, gateVars, lightVars, ledgerVars, roomVars,
      furtherVars>>
restOfRoom ==
    <<stoveVars, monitorVars, gateVars, lightVars, ledgerVars, configVars,
      furtherVars>>
engineVars ==
    <<stoveVars, monitorVars, gateVars, lightVars, ledgerVars, configVars,
      roomVars>>
restOfCycle == <<engineVars, kwhVars, intradayVars>>
restOfKwh == <<engineVars, cycleVars, intradayVars>>
restOfIntraday == <<engineVars, cycleVars, kwhVars>>

\* no power cycle has been started
CycleConstructed ==
    /\ cycle_outlets = <<>>
    /\ cycle_pc = "done"
    /\ cycle_now = 0
    /\ cycle_wake = 0
    /\ cycle_calls = <<>>

\* ConfigManager.async_load on day 0 with the given energy in the ledger and
\* no enforcement state file
KwhLoaded(loaded_energy) ==
    /\ kwh_today = 0
    /\ kwh_ledger = [energy |-> loaded_energy, date |-> 0]
    /\ kwh_state = [alerts_sent |-> {}, home_sent |-> FALSE, reset_date |-> 0]
    /\ kwh_pc = "sleep"
    /\ kwh_calls = <<>>
    /\ kwh_hist = [passes |-> 0, days |-> 0, reached |-> {}, announced |-> <<>>]

KwhConstructed == KwhLoaded(0)

\* the entities whose power the poll loop records
IntradayEntities == {"sensor.a", "sensor.b"}

\* ConfigManager.__init__ (lines 91-92): no history, no last minute
IntradayConstructed ==
    /\ intraday_now = 0
    /\ intraday_history = <<>>
    /\ intraday_last_minute = None
    /\ intraday_recorded = [e \in IntradayEntities |-> {}]

FurtherConstructed == CycleConstructed /\ KwhConstructed /\ IntradayConstructed

\* get_enforcement_state's entry for a room that has none
NewEnforcementState ==
    [warnings |-> <<>>, phase |-> 0, volume_offset |-> 0,
     last_phase_change |-> None]

\* the entries of smart_dashboards_enforcement_state.json for the room when it
\* is loaded: none, or the state of a room that was in phase 2 with four
\* warnings issued when the integration was restarted
LoadedEnforcement ==
    {NewEnforcementState,
     [warnings |-> <<0>>, phase |-> 2, volume_offset |-> 80,
      last_phase_change |-> 0]}

\* the locals of a pass before it has read anything
NoRoomPass ==
    [readings |-> [plug1 |-> 0, plug2 |-> 0], budget_exceeded |-> FALSE,
     started |-> None]

\* DEFAULT_CONFIG's power_enforcement with the enforcement enabled for the
\* room, the windows and reset periods at one minute and phase 1 after two
\* warnings
EnforcementSettings(phase2_count) ==
    [enabled |-> TRUE, phase1_enabled |-> TRUE, phase2_enabled |-> TRUE,
     phase1_warning_count |-> 2, phase1_time_window_minutes |-> 1,
     phase1_reset_minutes |-> 1, phase2_warning_count |-> phase2_count,
     phase2_time_window_minutes |-> 1, phase2_reset_minutes |-> 1]

\* EnergyMonitor.__init__ and ConfigManager.async_load on day 0 with an
\* empty ledger
RoomLoaded(loaded_energy, phase2_count, loaded_state) ==
    /\ room_now = 0
    /\ room_today = 0
    /\ power_enforcement = EnforcementSettings(phase2_count)
    /\ room_energy = [plug1 |-> loaded_energy, plug2 |-> 0, last_reset_date |-> 0]
    /\ room_counts = [warnings |-> 0, shutoffs |-> 0, reset_date |-> 0]
    /\ event_log = <<>>
    /\ enforcement = [state |-> loaded_state, reset_date |-> 0]
    /\ last_alerts = [room |-> None, outlet |-> None]
    /\ plug_pending = FALSE
    /\ budget_announced = [rooms |-> {}, date |-> None]
    /\ rpc = "sleep"
    /\ room_wake = 0
    /\ room_pass = NoRoomPass
    /\ room_calls = <<>>
    /\ room_hist = [passes |-> 0, days |-> 0, alerts |-> <<>>]

RoomConstructed == RoomLoaded(0, 3, NewEnforcementState)

\* DEFAULT_CONFIG["energy"]: no rooms, no breaker lines, and no entry for the
\* breaker panel size
DefaultEnergy == [rooms |-> <<>>, breaker_lines |-> <<>>, breaker_panel_size |-> None]

\* ConfigManager.__init__ and async_load without a file: the defaults are
\* saved
ConfigConstructed ==
    /\ energy_config = DefaultEnergy
    /\ config_file = DefaultEnergy

\* the history: the readings added per key since the date last changed, the
\* passes and restarts so far, and every clearing of the ledger for a new
\* date with the date it held and whether that date was in the history
NoLedgerHistory ==
    [since |-> [k \in {LedgerKeys[1], LedgerKeys[2]} |-> 0],
     passes |-> 0, restarts |-> 0, events |-> 0, days |-> 0, cleared |-> {}]

\* ConfigManager.__init__ and async_load on day 0 of an installation without
\* files: _async_load_energy_tracking stamps and saves the empty ledger, the
\* event counts and the enforcement state are stamped by their _ensure_
LedgerLoadedOnDay0 ==
    /\ today = 0
    /\ day_energy_data = EmptyDict
    /\ last_reset_date = 0
    /\ event_counts = ZeroEventCounts
    /\ event_counts_reset_date = 0
    /\ enforcement_state = EmptyDict
    /\ enforcement_reset_date = 0
    /\ daily_totals = EmptyDict
    /\ energy_file = [last_reset_date |-> 0, outlets |-> EmptyDict]
    /\ counts_file = NoCountsFile
    /\ enforcement_file = NoEnforcementFile
    /\ pass_pc = "idle"
    /\ ledger_hist = NoLedgerHistory

LedgerConstructed ==
    /\ LedgerLoadedOnDay0
    /\ save_counter = 0

\* no announcement in light-warning mode has begun
NoAnnouncement ==
    /\ restore_data = None
    /\ do_pc = "none"
    /\ tts_task = "none"
    /\ light_task = "none"
    /\ prior = None

LightsConstructed ==
    /\ lights = [l \in LightIds |-> OffLight]
    /\ NoAnnouncement

\* a call of async_send_tts_or_queue that has not been made yet
NoRequest ==
    [status |-> "none", ret |-> "none", recorded |-> FALSE, callbacks |-> 0,
     due |-> FALSE]

(***************************************************************************)
(* TTSPendingQueue.__init__; the media player is idle.                     *)
(***************************************************************************)
GateConstructed ==
    /\ gate_now = 0
    /\ player_state = "idle"
    /\ queues = <<>>
    /\ poll_tasks = None
    /\ tasks = <<>>
    /\ sending = FALSE
    /\ last_send_time = None
    /\ requests = [r \in 1..MaxRequests |-> NoRequest]
    /\ sent_order = <<>>

(***************************************************************************)
(* EnergyMonitor.__init__: nothing running, every dictionary empty.        *)
(***************************************************************************)
MonitorConstructed ==
    /\ clock = 0
    /\ running = FALSE
    /\ pc = "none"
    /\ stage = 0
    /\ wake = None
    /\ shutoff_pending = [k \in ShutoffKeys |-> FALSE]
    /\ breaker_shutoff_pending = [b \in BreakerIds |-> FALSE]
    /\ last_outlet_alerts = [i \in 1..Len(RoomIds) |-> None]
    /\ last_breaker_warnings = [b \in BreakerIds |-> None]
    /\ last_breaker_shutoffs = [b \in BreakerIds |-> None]
    /\ switch_on = [s \in Switches |-> TRUE]
    /\ room_budget_announced = {}
    /\ room_local = NoRoomLocal
    /\ mcalls = <<>>
    /\ hist = [evaluated |-> {}, raised_at |-> "none", pass_started |-> None,
               failed |-> 0, last_exit |-> "none", cancelled_off |-> {}]

(***************************************************************************)
(* EnergyMonitor.__init__ and the setdefault calls of _check_stove_safety. *)
(***************************************************************************)
StoveDefaults ==
    [state |-> "off",
     timer_start |-> None,
     timer_phase |-> "none",
     last_presence |-> "None",
     warn_15min_sent |-> FALSE,
     warn_30sec_sent |-> FALSE,
     powered_off_by_microwave |-> FALSE,
     power_below_since |-> None,
     power_above_since |-> None,
     presence_window_start |-> None]

\* the readings of a pass: hass.states.get of the stove plug, the microwave
\* plug and the presence sensor
Readings ==
    [stove_power : StovePowerReadings,
     mw_power : MicrowavePowerReadings,
     presence : PresenceStates]

NoReadings == [stove_power |-> 100, mw_power |-> 50, presence |-> "off"]

\* what the host's services do during a pass: every call succeeds, the
\* announcements raise, or the switch service raises
ServiceOutcomes == {"ok", "tts_fails", "switch_fails"}

InputOf(rd, outcome) ==
    [stove_power |-> rd.stove_power,
     mw_power |-> rd.mw_power,
     presence |-> rd.presence,
     tts_fails |-> outcome = "tts_fails",
     switch_fails |-> outcome = "switch_fails"]

\* The calls of a pass are named by service and call site: the stove switch's
\* turn_off is issued by the interlock (line 1170) and by the countdown (line
\* 1377), its turn_on by the interlock's restore step (line 1190).
TurnOffCalls == {"turn_off@interlock", "turn_off@countdown"}

\* the result of a stretch of code: the state it leaves, the calls it made,
\* and whether an exception left it
Result(st, cs, r) == [st |-> st, calls |-> cs, raised |-> r]

\* an announcement through the room's media player, if it has one
Announce(msg) == IF cfg.media_player THEN <<msg>> ELSE <<>>
AnnounceRaises(in) == cfg.media_player /\ in.tts_fails

(***************************************************************************)
(* Microwave interlock (first loop of _check_stove_safety).                *)
(***************************************************************************)
MicrowaveSkipped ==
    cfg.stove_safety_enabled = FALSE \/ cfg.microwave_safety_enabled = FALSE

MicrowaveInterlock(st, in) ==
    LET mw_is_on == in.mw_power > microwave_power_threshold
        stove_is_on == in.stove_power > stove_power_threshold
    IN  IF MicrowaveSkipped THEN Result(st, <<>>, FALSE)
        ELSE IF mw_is_on /\ stove_is_on THEN
            IF ~st.powered_off_by_microwave THEN
                IF in.switch_fails
                THEN Result([st EXCEPT !.powered_off_by_microwave = FALSE],
                            <<"turn_off@interlock">>, FALSE)
                ELSE Result([st EXCEPT !.powered_off_by_microwave = ~AnnounceRaises(in)],
                            <<"turn_off@interlock">> \o Announce("microwave_cut_power_msg"),
                            FALSE)
            ELSE Result(st, <<>>, FALSE)
        ELSE IF st.powered_off_by_microwave /\ ~mw_is_on THEN
            IF in.switch_fails
            THEN Result(st, <<"turn_on">>, FALSE)
            ELSE IF AnnounceRaises(in)
            THEN Result(st, <<"turn_on">> \o Announce("microwave_restore_power_msg"), FALSE)
            ELSE Result([st EXCEPT !.powered_off_by_microwave = FALSE, !.state = "on"],
                        <<"turn_on">> \o Announce("microwave_restore_power_msg"), FALSE)
        ELSE Result(st, <<>>, FALSE)

(***************************************************************************)
(* On/off debounce (lines 1250-1287).                                      *)
(***************************************************************************)
StoveDebounce(st, in, t) ==
    IF in.stove_power > stove_power_threshold THEN
        LET s1 == [st EXCEPT !.power_above_since = IF @ = None THEN t ELSE @,
                             !.power_below_since = None]
            elapsed_above == t - s1.power_above_since
        IN  IF s1.state # "on" /\ elapsed_above >= cfg.stove_on_debounce_seconds
            THEN Result([s1 EXCEPT !.state = "on",
                                   !.warn_15min_sent = FALSE,
                                   !.warn_30sec_sent = FALSE],
                        Announce("stove_on_msg"), AnnounceRaises(in))
            ELSE Result(s1, <<>>, FALSE)
    ELSE
        LET s1 == [st EXCEPT !.power_below_since = IF @ = None THEN t ELSE @,
                             !.power_above_since = None]
            elapsed_below == t - s1.power_below_since
        IN  IF s1.state = "on" /\ elapsed_below >= stove_off_debounce_seconds
            THEN Result([s1 EXCEPT !.state = "off",
                                   !.timer_start = None,
                                   !.timer_phase = "none",
                                   !.presence_window_start = None,
                                   !.warn_15min_sent = FALSE,
                                   !.warn_30sec_sent = FALSE],
                        IF ~s1.powered_off_by_microwave
                        THEN Announce("stove_off_msg") ELSE <<>>,
                        ~s1.powered_off_by_microwave /\ AnnounceRaises(in))
            ELSE Result(s1, <<>>, FALSE)

(***************************************************************************)
(* Presence tracking and start of the countdown (lines 1292-1329).         *)
(***************************************************************************)
PresenceDetected(in) == in.presence \in {"detected", "on"}

StovePresence(st, in, t) ==
    IF PresenceDetected(in) THEN
        LET s1 == [st EXCEPT !.presence_window_start = None]
            s2 == IF s1.timer_phase # "none"
                  THEN [s1 EXCEPT !.timer_start = None,
                                  !.timer_phase = "none",
                                  !.warn_15min_sent = FALSE,
                                  !.warn_30sec_sent = FALSE]
                  ELSE s1
        IN  Result([s2 EXCEPT !.last_presence = "on"], <<>>, FALSE)
    ELSE IF st.last_presence = "on" THEN
        IF st.presence_window_start = None
        THEN Result([st EXCEPT !.presence_window_start = t], <<>>, FALSE)
        ELSE IF t - st.presence_window_start >= timer_start_window_seconds
        THEN LET s1 == [st EXCEPT !.timer_start = t,
                                  !.timer_phase = "15min",
                                  !.presence_window_start = None,
                                  !.warn_15min_sent = FALSE,
                                  !.warn_30sec_sent = FALSE]
             IN  IF AnnounceRaises(in)
                 THEN Result(s1, Announce("stove_timer_started_msg"), TRUE)
                 ELSE Result([s1 EXCEPT !.last_presence = "off"],
                             Announce("stove_timer_started_msg"), FALSE)
        ELSE Result(st, <<>>, FALSE)
    ELSE Result(st, <<>>, FALSE)

(***************************************************************************)
(* The countdown (lines 1331-1396); runs only when presence is not         *)
(* detected.                                                               *)
(***************************************************************************)
CountdownCleared(st) ==
    [st EXCEPT !.timer_start = None,
               !.timer_phase = "none",
               !.warn_15min_sent = FALSE,
               !.warn_30sec_sent = FALSE]

\* line 1350: the countdown ends after the cooking-time warning when shutoff
\* is disabled
ShutoffDisabled == cfg.stove_safety_enabled = FALSE

\* the guard of line 1375 dropped: the switch is turned off whatever the flag
ShutoffAllowed_Always == TRUE

\* line 1375: the switch is turned off only when shutoff is enabled (the
\* stove outlet has its plug1_switch configured)
ShutoffAllowed == cfg.stove_safety_enabled # FALSE

StoveCountdown(st, in, t) ==
    IF st.timer_start = None THEN Result(st, <<>>, FALSE)
    ELSE
        LET elapsed == t - st.timer_start IN
        IF st.timer_phase = "15min" THEN
            IF elapsed >= cooking_time_sec THEN
                IF ~st.warn_15min_sent /\ AnnounceRaises(in)
                THEN Result(st, Announce("stove_15min_warn_msg"), TRUE)
                ELSE
                    LET cs == IF ~st.warn_15min_sent
                              THEN Announce("stove_15min_warn_msg") ELSE <<>>
                        s1 == [st EXCEPT !.warn_15min_sent = TRUE]
                    IN  IF ShutoffDisabled
                        THEN Result(CountdownCleared(s1), cs, FALSE)
                        ELSE Result([s1 EXCEPT !.timer_start = t,
                                               !.timer_phase = "30sec",
                                               !.warn_30sec_sent = FALSE],
                                    cs, FALSE)
            ELSE Result(st, <<>>, FALSE)
        ELSE IF st.timer_phase = "30sec" THEN
            IF elapsed >= final_warning_sec THEN
                IF ~st.warn_30sec_sent /\ AnnounceRaises(in)
                THEN Result(st, Announce("stove_30sec_warn_msg"), TRUE)
                ELSE
                    LET cs == IF ~st.warn_30sec_sent
                              THEN Announce("stove_30sec_warn_msg") ELSE <<>>
                        off == IF ~ShutoffAllowed THEN <<>>
                               ELSE IF in.switch_fails THEN <<"turn_off@countdown">>
                               ELSE <<"turn_off@countdown">>
                                        \o Announce("stove_auto_off_msg")
                    IN  Result(CountdownCleared(st), cs \o off, FALSE)
            ELSE Result(st, <<>>, FALSE)
        ELSE Result(st, <<>>, FALSE)

(***************************************************************************)
(* The per-stove loop body (lines 1211-1396).                              *)
(***************************************************************************)
\* the skip of line 1242 dropped: the stove logic runs for a suppressed stove
StoveSuppressed_Never(st) == FALSE

\* line 1242: a stove suppressed by the interlock is skipped
StoveSuppressed(st) == st.powered_off_by_microwave

\* line 1289: the presence and countdown logic is skipped when the reading is
\* not above the threshold
StoveLogicSkipped(st, in) == ~(in.stove_power > stove_power_threshold)

StoveDevice(st, in, t) ==
    IF StoveSuppressed(st) THEN Result(st, <<>>, FALSE)
    ELSE
        LET d == StoveDebounce(st, in, t) IN
        IF d.raised \/ StoveLogicSkipped(d.st, in) THEN d
        ELSE
            LET p == StovePresence(d.st, in, t) IN
            IF p.raised \/ PresenceDetected(in)
            THEN Result(p.st, d.calls \o p.calls, p.raised)
            ELSE
                LET c == StoveCountdown(p.st, in, t)
                IN  Result(c.st, d.calls \o p.calls \o c.calls, c.raised)

(***************************************************************************)
(* History of the current run of passes in which the stove is on (debounced*)
(* state on, reading above the threshold, not suppressed) and presence is  *)
(* not detected: when it began and whether a countdown has been active     *)
(* during it; and the current unbroken run of passes that read the stove   *)
(* above, or at or below, its threshold: the time of its first pass.       *)
(***************************************************************************)
NoObs ==
    [absent_since |-> None, countdown_seen |-> FALSE,
     above_from |-> None, below_from |-> None]

StoveOnAt(st, in) ==
    /\ st.state = "on"
    /\ in.stove_power > stove_power_threshold
    /\ ~st.powered_off_by_microwave

ObsAfter(o, pre, post, in, t) ==
    IF StoveOnAt(pre, in) /\ StoveOnAt(post, in) /\ ~PresenceDetected(in)
    THEN [absent_since |-> IF o.absent_since = None THEN t ELSE o.absent_since,
          countdown_seen |-> \/ (o.absent_since # None /\ o.countdown_seen)
                             \/ pre.timer_phase # "none"
                             \/ post.timer_phase # "none",
          above_from |-> IF in.stove_power > stove_power_threshold
                         THEN (IF o.above_from = None THEN t ELSE o.above_from)
                         ELSE None,
          below_from |-> IF in.stove_power > stove_power_threshold
                         THEN None
                         ELSE (IF o.below_from = None THEN t ELSE o.below_from)]
    ELSE [absent_since |-> None, countdown_seen |-> FALSE,
          above_from |-> IF in.stove_power > stove_power_threshold
                         THEN (IF o.above_from = None THEN t ELSE o.above_from)
                         ELSE None,
          below_from |-> IF in.stove_power > stove_power_threshold
                         THEN None
                         ELSE (IF o.below_from = None THEN t ELSE o.below_from)]

(***************************************************************************)
(* One pass of _check_stove_safety.                                        *)
(***************************************************************************)
CheckStoveSafety ==
    /\ ticks < MaxStoveTicks
    /\ \E gap \in TickGaps, rd \in Readings, outcome \in ServiceOutcomes :
        LET t == now + gap
            in == InputOf(rd, outcome)
            a == MicrowaveInterlock(stove, in)
            b == StoveDevice(a.st, in, t)
        IN  /\ now' = t
            /\ stove' = b.st
            /\ calls' = a.calls \o b.calls
            /\ raised' = b.raised
            /\ inp' = rd
            /\ obs' = ObsAfter(obs, stove, b.st, in, t)
    /\ ticks' = ticks + 1
    /\ UNCHANGED cfg
    /\ UNCHANGED restOfStove

\* ConfigManager.async_update_energy replacing the stove outlet's
\* stove_safety_enabled while the monitor runs
UpdateStoveSafetyEnabled ==
    /\ cfg' = [cfg EXCEPT !.stove_safety_enabled = ~@]
    /\ calls' = <<>>
    /\ raised' = FALSE
    /\ UNCHANGED <<now, stove, inp, ticks, obs>>
    /\ UNCHANGED restOfStove

StoveInitState ==
    /\ now = 0
    /\ cfg \in StoveConfigs
    /\ stove = StoveDefaults
    /\ calls = <<>>
    /\ raised = FALSE
    /\ inp = NoReadings
    /\ ticks = 0
    /\ obs = NoObs
    /\ MonitorConstructed
    /\ GateConstructed
    /\ ConfigConstructed
    /\ FurtherConstructed
    /\ RoomConstructed
    /\ LightsConstructed
    /\ LedgerConstructed

StoveNext == CheckStoveSafety \/ UpdateStoveSafetyEnabled

SpecStove == StoveInitState /\ [][StoveNext]_vars

(***************************************************************************)
(* Claims about the cooking safety state machine, under SpecStove.         *)
(***************************************************************************)
Issued(msg) == \E i \in 1..Len(calls) : calls[i] = msg
IssuedNext(msg) == \E i \in 1..Len(calls') : calls'[i] = msg
IsStovePass == ticks' = ticks + 1

\* C1: while the stove is on and presence stays not-detected, the countdown
\* has entered the cooking-window phase once the absence has lasted
\* timer_start_window_seconds, also when presence was never detected before.
C1_CountdownStartsAfterAbsence ==
    (obs.absent_since # None /\ now - obs.absent_since >= timer_start_window_seconds)
        => obs.countdown_seen

\* C2: with shutoff enabled, stove on and nobody present: the cooking-window
\* warning is issued once the cooking duration has elapsed; once the
\* final-warning duration has
\* elapsed the final warning is issued, the switch is turned off after it and
\* before the auto-off announcement, all in the same pass, and the countdown
\* is back to phase "none" with no start time; a pass that begins and ends in
\* phase "none" issues no countdown warning and no countdown turn_off.
C2_Unattended ==
    /\ IsStovePass
    /\ cfg.stove_safety_enabled
    /\ cfg.media_player
    /\ stove.state = "on"
    /\ inp'.stove_power > stove_power_threshold
    /\ ~stove'.powered_off_by_microwave
    /\ ~PresenceDetected(inp')
    /\ stove.timer_start # None

C2_CookingWarning ==
    (/\ C2_Unattended
     /\ stove.timer_phase = "15min"
     /\ stove.last_presence = "off"
     /\ now' - stove.timer_start >= cooking_time_sec)
        => IssuedNext("stove_15min_warn_msg")

C2_FinalWarningAndShutoff ==
    (/\ C2_Unattended
     /\ stove.timer_phase = "30sec"
     /\ stove.last_presence = "off"
     /\ now' - stove.timer_start >= final_warning_sec)
        => /\ \E i \in 1..Len(calls') :
                /\ calls'[i] = "stove_30sec_warn_msg"
                /\ \A j \in 1..Len(calls') : calls'[j] = "stove_30sec_warn_msg" => j = i
                /\ \E k \in (i+1)..Len(calls') :
                    /\ calls'[k] = "turn_off@countdown"
                    /\ \A m \in 1..Len(calls') :
                        calls'[m] = "stove_auto_off_msg" => m > k
           /\ stove'.timer_phase = "none"
           /\ stove'.timer_start = None

C2_NothingAfterwards ==
    (IsStovePass /\ stove.timer_phase = "none" /\ stove'.timer_phase = "none")
        => /\ ~IssuedNext("stove_15min_warn_msg")
           /\ ~IssuedNext("stove_30sec_warn_msg")
           /\ ~IssuedNext("turn_off@countdown")
           /\ ~IssuedNext("stove_auto_off_msg")

C2_CountdownRunsToShutoff ==
    [][C2_CookingWarning /\ C2_FinalWarningAndShutoff /\ C2_NothingAfterwards]_vars

\* C3: while stove_safety_enabled is false, no pass of the state machine
\* (interlock or countdown) issues a turn_off for the stove's switch.
C3_NoTurnOffWhenSafetyDisabled ==
    cfg.stove_safety_enabled = FALSE
        => \A i \in 1..Len(calls) : calls[i] \notin TurnOffCalls

\* C3 witness: shutoff disabled, the final-warning duration has elapsed (the
\* final warning was announced) while microwave and stove both draw power.
C3_Witness ==
    /\ cfg.stove_safety_enabled = FALSE
    /\ cfg.microwave_safety_enabled
    /\ Issued("stove_30sec_warn_msg")
    /\ inp.mw_power > microwave_power_threshold
    /\ inp.stove_power > stove_power_threshold

\* C4: while the stove is on (debounced state "on"), a pass in which presence
\* is detected clears a pending start-window and returns the countdown to
\* phase "none" with no start time and cleared warning flags.
C4_PresenceCancelsCountdown ==
    [][(IsStovePass /\ stove.state = "on" /\ PresenceDetected(inp'))
        => /\ stove'.presence_window_start = None
           /\ stove'.timer_phase = "none"
           /\ stove'.timer_start = None
           /\ ~stove'.warn_15min_sent
           /\ ~stove'.warn_30sec_sent]_vars

(***************************************************************************)
(* SpecMonitor: the monitor task.  _monitor_loop runs one pass of          *)
(* _check_energy after the other in the one task self._task; a pass awaits *)
(* _handle_plug_shutoff and the breaker shutoff in line, so the task is    *)
(* inside the cycle while the cycle waits out SHUTOFF_RESET_DELAY.  The    *)
(* stages of a pass take no time; time passes while the task sleeps.       *)
(***************************************************************************)
\* how a service call or the formatting of a message template can end
MonitorOutcomes == {"ok", "tts_fails", "switch_fails", "format_fails"}

TaskAlive == pc \notin {"none", "cancelled", "dead"}
InPass == pc \in {"room", "alerts", "breaker", "stove", "enforce"}
InCycleWait == pc \in {"plug_wait", "breaker_wait"}

CooldownOver(last) == last = None \/ clock - last >= ALERT_COOLDOWN

\* the value of the in-flight flag while a cycle runs
PendingWhileCycling_Unset == FALSE
PendingWhileCycling == TRUE

\* whether the finally clause that clears the in-flight flag also runs when
\* the task is cancelled inside the cycle: CancelledError passes the
\* "except Exception" clause and runs the finally clause
FinallyRunsOnCancel_BodyOnly == FALSE
FinallyRunsOnCancel == TRUE

\* _monitor_loop's "except Exception" logs and falls through to the sleep
OnPassException_TaskEnds == "dead"
OnPassException == "sleep"

\* the pass is left by an exception raised while stage s is evaluated
PassRaises(s) ==
    /\ pc' = OnPassException
    /\ wake' = clock + ENERGY_CHECK_INTERVAL
    /\ stage' = 0
    /\ hist' = [hist EXCEPT !.raised_at = s,
                            !.failed = Min(@ + 1, MaxFailedPasses)]

\* the first statement of a pass
BeginPass ==
    /\ pc' = "room"
    /\ stage' = 1
    /\ wake' = None
    /\ room_local' = NoRoomLocal
    /\ mcalls' = <<>>
    /\ hist' = [hist EXCEPT !.evaluated = {}, !.raised_at = "none",
                            !.pass_started = clock]

\* EnergyMonitor.async_start, called once on a new EnergyMonitor by
\* async_start_energy_monitor
AsyncStart ==
    /\ ~running
    /\ pc = "none"
    /\ running' = TRUE
    /\ BeginPass
    /\ UNCHANGED <<clock, shutoff_pending, breaker_shutoff_pending,
                   last_outlet_alerts, last_breaker_warnings,
                   last_breaker_shutoffs, switch_on, room_budget_announced>>
    /\ UNCHANGED restOfMonitor

\* asyncio.sleep(ENERGY_CHECK_INTERVAL) returns and the loop tests _running
WakeLoop ==
    /\ pc = "sleep"
    /\ clock >= wake
    /\ running
    /\ BeginPass
    /\ UNCHANGED <<clock, running, shutoff_pending, breaker_shutoff_pending,
                   last_outlet_alerts, last_breaker_warnings,
                   last_breaker_shutoffs, switch_on, room_budget_announced>>
    /\ UNCHANGED restOfMonitor

\* one second passes; a sleeping task is resumed when its sleep ends
TimePasses ==
    /\ pc \in {"sleep", "plug_wait", "breaker_wait"}
    /\ clock < wake
    /\ clock < MaxClock
    /\ clock' = clock + 1
    /\ mcalls' = <<>>
    /\ UNCHANGED <<running, pc, stage, wake, shutoff_pending,
                   breaker_shutoff_pending, last_outlet_alerts,
                   last_breaker_warnings, last_breaker_shutoffs, switch_on,
                   room_budget_announced, room_local, hist>>
    /\ UNCHANGED restOfMonitor

(***************************************************************************)
(* A room of the pass, up to the end of _handle_plug_shutoff or to its     *)
(* asyncio.sleep(SHUTOFF_RESET_DELAY): the budget announcement, the plug   *)
(* reading and the start of the plug's shutoff cycle.                      *)
(***************************************************************************)
RoomPlugs ==
    /\ pc = "room"
    /\ \E budget_exceeded \in BOOLEAN, plug1 \in PowerLevels,
          announce \in {"ok", "tts_fails", "format_fails"},
          outcome \in MonitorOutcomes :
        LET r == RoomIds[stage]
            key == ShutoffKey(r)
            sw == PlugSwitch[r]
            announced == budget_exceeded /\ r \notin room_budget_announced
            off == <<<<"turn_off", "plug", key>>>>
        IN  /\ room_budget_announced' =
                   IF announced THEN room_budget_announced \cup {r}
                   ELSE room_budget_announced
            /\ room_local' = [budget_exceeded |-> budget_exceeded, plug1 |-> plug1]
            /\ IF announced /\ announce = "tts_fails"
               THEN \* only KeyError and ValueError are caught
                    /\ PassRaises(r)
                    /\ mcalls' = <<>>
                    /\ UNCHANGED <<shutoff_pending, switch_on>>
               ELSE IF ~(budget_exceeded /\ plug1 = "over_shutoff") \/ shutoff_pending[key]
               THEN /\ pc' = "alerts"
                    /\ mcalls' = <<>>
                    /\ UNCHANGED <<stage, wake, shutoff_pending, switch_on, hist>>
               ELSE IF outcome = "switch_fails"
               THEN \* turn_off raises: except, finally
                    /\ pc' = "alerts"
                    /\ mcalls' = off
                    /\ hist' = [hist EXCEPT !.last_exit = "turn_off_failed"]
                    /\ UNCHANGED <<stage, wake, shutoff_pending, switch_on>>
               ELSE IF outcome = "format_fails"
               THEN \* the switch is off, the template raises: except, finally
                    /\ pc' = "alerts"
                    /\ mcalls' = off
                    /\ switch_on' = [switch_on EXCEPT ![sw] = FALSE]
                    /\ hist' = [hist EXCEPT !.last_exit = "message_failed"]
                    /\ UNCHANGED <<stage, wake, shutoff_pending>>
               ELSE \* the announcement's failure is caught; the cycle waits
                    /\ pc' = "plug_wait"
                    /\ wake' = clock + SHUTOFF_RESET_DELAY
                    /\ mcalls' = off
                    /\ switch_on' = [switch_on EXCEPT ![sw] = FALSE]
                    /\ shutoff_pending' = [shutoff_pending EXCEPT ![key] = PendingWhileCycling]
                    /\ UNCHANGED <<stage, hist>>
    /\ UNCHANGED <<clock, running, breaker_shutoff_pending, last_outlet_alerts,
                   last_breaker_warnings, last_breaker_shutoffs>>
    /\ UNCHANGED restOfMonitor

\* _handle_plug_shutoff after its asyncio.sleep: turn_on, finally
PlugShutoffResume ==
    /\ pc = "plug_wait"
    /\ clock >= wake
    /\ \E outcome \in {"ok", "switch_fails"} :
        LET r == RoomIds[stage]
        IN  /\ switch_on' = IF outcome = "ok"
                            THEN [switch_on EXCEPT ![PlugSwitch[r]] = TRUE]
                            ELSE switch_on
            /\ mcalls' = <<<<"turn_on", "plug", ShutoffKey(r)>>>>
            /\ shutoff_pending' = [shutoff_pending EXCEPT ![ShutoffKey(r)] = FALSE]
            /\ hist' = [hist EXCEPT !.last_exit = IF outcome = "ok" THEN "completed"
                                                  ELSE "turn_on_failed"]
    /\ pc' = "alerts"
    /\ wake' = None
    /\ UNCHANGED <<clock, running, stage, breaker_shutoff_pending,
                   last_outlet_alerts, last_breaker_warnings,
                   last_breaker_shutoffs, room_budget_announced, room_local>>
    /\ UNCHANGED restOfMonitor

\* the rest of the room: _send_outlet_alert for the outlet's combined watts
\* (the rooms have no room threshold)
RoomAlerts ==
    /\ pc = "alerts"
    /\ \E outcome \in {"ok", "tts_fails", "format_fails"} :
        LET r == RoomIds[stage]
            due == /\ room_local.budget_exceeded
                   /\ room_local.plug1 # "low"
                   /\ CooldownOver(last_outlet_alerts[stage])
        IN  /\ last_outlet_alerts' =
                   IF due THEN [last_outlet_alerts EXCEPT ![stage] = clock]
                   ELSE last_outlet_alerts
            /\ IF due /\ outcome = "format_fails"
               THEN \* msg_template.format is outside the try
                    PassRaises(r)
               ELSE /\ hist' = [hist EXCEPT !.evaluated = @ \cup {r}]
                    /\ pc' = IF stage < Len(RoomIds) THEN "room" ELSE "breaker"
                    /\ stage' = IF stage < Len(RoomIds) THEN stage + 1 ELSE 0
                    /\ UNCHANGED wake
    /\ mcalls' = <<>>
    /\ room_local' = NoRoomLocal
    /\ UNCHANGED <<clock, running, shutoff_pending, breaker_shutoff_pending,
                   last_breaker_warnings, last_breaker_shutoffs, switch_on,
                   room_budget_announced>>
    /\ UNCHANGED restOfMonitor

(***************************************************************************)
(* _check_breaker_lines for the one breaker line, up to its end or to the  *)
(* asyncio.sleep(SHUTOFF_RESET_DELAY) of the breaker's shutoff cycle.      *)
(***************************************************************************)
BreakerLine ==
    /\ pc = "breaker"
    /\ \E b \in BreakerIds, total \in PowerLevels,
          warning \in {"ok", "tts_fails", "format_fails"},
          outcome \in MonitorOutcomes :
        LET warn == total # "low" /\ CooldownOver(last_breaker_warnings[b])
            shut == /\ total = "over_shutoff"
                    /\ ~breaker_shutoff_pending[b]
                    /\ CooldownOver(last_breaker_shutoffs[b])
            off == <<<<"turn_off", "breaker", b>>>>
            done == [hist EXCEPT !.evaluated = @ \cup {b}]
        IN  /\ last_breaker_warnings' =
                   IF warn THEN [last_breaker_warnings EXCEPT ![b] = clock]
                   ELSE last_breaker_warnings
            /\ IF warn /\ warning # "ok"
               THEN \* neither the template nor the announcement is in a try
                    /\ PassRaises(b)
                    /\ mcalls' = <<>>
                    /\ UNCHANGED <<breaker_shutoff_pending, last_breaker_shutoffs, switch_on>>
               ELSE IF ~shut
               THEN /\ pc' = "stove"
                    /\ hist' = done
                    /\ mcalls' = <<>>
                    /\ UNCHANGED <<stage, wake, breaker_shutoff_pending,
                                   last_breaker_shutoffs, switch_on>>
               ELSE /\ last_breaker_shutoffs' = [last_breaker_shutoffs EXCEPT ![b] = clock]
                    /\ IF outcome \in {"tts_fails", "format_fails"}
                       THEN \* raised before any turn_off: except, finally
                            /\ pc' = "stove"
                            /\ hist' = [done EXCEPT !.last_exit = "message_failed"]
                            /\ mcalls' = <<>>
                            /\ UNCHANGED <<stage, wake, breaker_shutoff_pending, switch_on>>
                       ELSE IF outcome = "switch_fails"
                       THEN /\ pc' = "stove"
                            /\ hist' = [done EXCEPT !.last_exit = "turn_off_failed"]
                            /\ mcalls' = off
                            /\ UNCHANGED <<stage, wake, breaker_shutoff_pending, switch_on>>
                       ELSE /\ pc' = "breaker_wait"
                            /\ wake' = clock + SHUTOFF_RESET_DELAY
                            /\ mcalls' = off
                            /\ switch_on' = [s \in Switches |->
                                   IF s \in BreakerSwitches(b) THEN FALSE ELSE switch_on[s]]
                            /\ breaker_shutoff_pending' =
                                   [breaker_shutoff_pending EXCEPT ![b] = PendingWhileCycling]
                            /\ UNCHANGED <<stage, hist>>
    /\ UNCHANGED <<clock, running, shutoff_pending, last_outlet_alerts,
                   room_budget_announced, room_local>>
    /\ UNCHANGED restOfMonitor

\* the breaker's shutoff cycle after its asyncio.sleep: turn_on, finally
BreakerShutoffResume ==
    /\ pc = "breaker_wait"
    /\ clock >= wake
    /\ \E b \in BreakerIds, outcome \in {"ok", "switch_fails"} :
        /\ breaker_shutoff_pending[b]
        /\ switch_on' = IF outcome = "ok"
                        THEN [s \in Switches |->
                                 IF s \in BreakerSwitches(b) THEN TRUE ELSE switch_on[s]]
                        ELSE switch_on
        /\ mcalls' = <<<<"turn_on", "breaker", b>>>>
        /\ breaker_shutoff_pending' = [breaker_shutoff_pending EXCEPT ![b] = FALSE]
        /\ hist' = [hist EXCEPT !.evaluated = @ \cup {b},
                                !.last_exit = IF outcome = "ok" THEN "completed"
                                              ELSE "turn_on_failed"]
    /\ pc' = "stove"
    /\ wake' = None
    /\ UNCHANGED <<clock, running, stage, shutoff_pending, last_outlet_alerts,
                   last_breaker_warnings, last_breaker_shutoffs,
                   room_budget_announced, room_local>>
    /\ UNCHANGED restOfMonitor

\* _check_stove_safety as a stage of the pass: it returns, or an announcement
\* of it raises (SpecStove has the state machine)
StoveSafety ==
    /\ pc = "stove"
    /\ \E announcement_raises \in BOOLEAN :
        IF announcement_raises
        THEN PassRaises("stove")
        ELSE /\ pc' = "enforce"
             /\ hist' = [hist EXCEPT !.evaluated = @ \cup {"stove"}]
             /\ UNCHANGED <<stage, wake>>
    /\ mcalls' = <<>>
    /\ UNCHANGED <<clock, running, shutoff_pending, breaker_shutoff_pending,
                   last_outlet_alerts, last_breaker_warnings,
                   last_breaker_shutoffs, switch_on, room_budget_announced,
                   room_local>>
    /\ UNCHANGED restOfMonitor

\* _check_power_enforcement as the last stage of the pass: it returns, or the
\* phase_reset_msg template raises outside the try; then the pass returns
\* and the loop sleeps
PowerEnforcement ==
    /\ pc = "enforce"
    /\ \E template_raises \in BOOLEAN :
        IF template_raises
        THEN PassRaises("enforcement")
        ELSE /\ pc' = "sleep"
             /\ wake' = clock + ENERGY_CHECK_INTERVAL
             /\ hist' = [hist EXCEPT !.evaluated = @ \cup {"enforcement"}]
             /\ UNCHANGED stage
    /\ mcalls' = <<>>
    /\ UNCHANGED <<clock, running, shutoff_pending, breaker_shutoff_pending,
                   last_outlet_alerts, last_breaker_warnings,
                   last_breaker_shutoffs, switch_on, room_budget_announced,
                   room_local>>
    /\ UNCHANGED restOfMonitor

(***************************************************************************)
(* self._task.cancel(): CancelledError is raised at the await the task is  *)
(* suspended in.  Inside a cycle's wait it skips the turn_on, is not       *)
(* caught by "except Exception", and runs the finally clause.              *)
(***************************************************************************)
CancelTask ==
    /\ TaskAlive
    /\ pc' = "cancelled"
    /\ stage' = 0
    /\ wake' = None
    /\ mcalls' = <<>>
    /\ shutoff_pending' =
           IF pc = "plug_wait" /\ FinallyRunsOnCancel
           THEN [shutoff_pending EXCEPT ![ShutoffKey(RoomIds[stage])] = FALSE]
           ELSE shutoff_pending
    /\ breaker_shutoff_pending' =
           IF pc = "breaker_wait" /\ FinallyRunsOnCancel
           THEN [b \in BreakerIds |-> FALSE]
           ELSE breaker_shutoff_pending
    /\ hist' = IF pc = "plug_wait"
               THEN [hist EXCEPT !.last_exit = "cancelled",
                                 !.cancelled_off = @ \cup {PlugSwitch[RoomIds[stage]]}]
               ELSE IF pc = "breaker_wait"
               THEN [hist EXCEPT !.last_exit = "cancelled",
                                 !.cancelled_off = @ \cup
                                     UNION {BreakerSwitches(b) : b \in BreakerIds}]
               ELSE hist
    /\ UNCHANGED <<clock, last_outlet_alerts, last_breaker_warnings,
                   last_breaker_shutoffs, switch_on, room_budget_announced,
                   room_local>>
    /\ UNCHANGED restOfMonitor

\* EnergyMonitor.async_stop
AsyncStop ==
    /\ running
    /\ running' = FALSE
    /\ CancelTask

\* async_unload_entry: hass.data[DOMAIN]["energy_monitor_task"].cancel()
AsyncUnloadEntry ==
    /\ CancelTask
    /\ UNCHANGED running

MonitorInit ==
    /\ now = 0
    /\ cfg = [stove_safety_enabled |-> TRUE, microwave_safety_enabled |-> FALSE,
              media_player |-> TRUE, stove_on_debounce_seconds |-> 0]
    /\ stove = StoveDefaults
    /\ calls = <<>>
    /\ raised = FALSE
    /\ inp = NoReadings
    /\ ticks = 0
    /\ obs = NoObs
    /\ MonitorConstructed
    /\ GateConstructed
    /\ ConfigConstructed
    /\ FurtherConstructed
    /\ RoomConstructed
    /\ LightsConstructed
    /\ LedgerConstructed

MonitorNext ==
    \/ AsyncStart
    \/ WakeLoop
    \/ TimePasses
    \/ RoomPlugs
    \/ PlugShutoffResume
    \/ RoomAlerts
    \/ BreakerLine
    \/ BreakerShutoffResume
    \/ StoveSafety
    \/ PowerEnforcement
    \/ AsyncStop
    \/ AsyncUnloadEntry

SpecMonitor == MonitorInit /\ [][MonitorNext]_vars

(***************************************************************************)
(* Properties of the monitor task and of the shutoff cycles.               *)
(***************************************************************************)
\* the routine of the plug's shutoff cycle is executing for key k
PlugCycling(k) == pc = "plug_wait" /\ ShutoffKey(RoomIds[stage]) = k
\* the routine of the breaker's shutoff cycle is executing for breaker b
BreakerCycling(b) == pc = "breaker_wait" /\ b \in BreakerIds
TurnedOffIn(cs, kind, target) ==
    \E i \in 1..Len(cs) : cs[i] = <<"turn_off", kind, target>>

C6_PendingClearedOnEveryExit ==
    /\ \A k \in ShutoffKeys : shutoff_pending[k] => PlugCycling(k)
    /\ \A b \in BreakerIds : breaker_shutoff_pending[b] => BreakerCycling(b)

\* the task was cancelled inside a cycle's wait and no flag is left set
C6_Witness ==
    /\ pc = "cancelled"
    /\ hist.last_exit = "cancelled"
    /\ hist.cancelled_off # {}
    /\ \A k \in ShutoffKeys : ~shutoff_pending[k]
    /\ \A b \in BreakerIds : ~breaker_shutoff_pending[b]

\* C7: while a shutoff cycle waits out its settle delay, passes still start
\* at the one-second cadence: the last pass started at most
\* ENERGY_CHECK_INTERVAL ago.
C7_PassesContinueDuringCycle ==
    InCycleWait => clock - hist.pass_started <= ENERGY_CHECK_INTERVAL

\* C8: cancelling the monitor task while a cycle waits does not abort the
\* cycle: no cycle is ended by the cancellation between its turn_off and its
\* turn_on, leaving its switches off.
C8_StopDoesNotAbortCycle ==
    \A s \in Switches : s \in hist.cancelled_off => switch_on[s]

\* C9: when a pass has ended, every stage other than the one that raised has
\* been evaluated in it: the rooms, the breaker lines, the stove check and
\* the enforcement check.
C9_FailureIsolatedWithinPass ==
    pc = "sleep" => AllStages \subseteq hist.evaluated \cup {hist.raised_at}

\* C10: a pass that raises leaves the loop in its sleep of
\* ENERGY_CHECK_INTERVAL with the monitor still running, and the loop leaves
\* that sleep, unless cancelled, by starting the next pass once it is over.
C10_LoopSurvivesFailingPass ==
    [][/\ (InPass /\ hist'.raised_at # "none") =>
              /\ pc' = "sleep"
              /\ wake' = clock + ENERGY_CHECK_INTERVAL
              /\ running' = running
       /\ (pc = "sleep" /\ pc' \notin {"sleep", "cancelled"}) =>
              /\ pc' = "room"
              /\ clock >= wake
              /\ hist'.pass_started = clock]_vars

\* a pass has started after MaxFailedPasses failing passes
C10_Witness ==
    /\ hist.failed = MaxFailedPasses
    /\ pc = "room"
    /\ hist.raised_at = "none"
    /\ hist.pass_started > 0

(***************************************************************************)
(* SpecGate: the announcements to one media player.  Callers of            *)
(* async_send_tts_or_queue are the monitor task, the websocket handler     *)
(* websocket_send_tts and the continuations run by a poll task, so calls   *)
(* interleave with dispatches in progress.  A dispatch (the tts service    *)
(* call, in light-warning mode the blink loop, then the continuation)      *)
(* takes time; self._lock is never held across an await, so the locked     *)
(* sections are single steps.                                              *)
(***************************************************************************)
\* how a dispatch ends
DispatchOutcomes == {"ok", "tts_fails"}
\* the outcomes after which the post_send_callback is reached: it follows
\* the send inside the try
CallbackOutcomes_Finally == {"ok", "tts_fails"}
CallbackOutcomes == {"ok"}

Submitted == Cardinality({r \in 1..MaxRequests : requests[r].status # "none"})

\* is_media_player_ready_for_tts
PlayerReady == player_state \in READY_FOR_TTS_STATES
\* TTSPendingQueue._can_send_now
CanSendNow ==
    /\ ~sending
    /\ ~(last_send_time # None /\ gate_now - last_send_time < MIN_TTS_INTERVAL)

\* enqueue's test for creating a poll task
SpawnNeeded_Always == TRUE
SpawnNeeded == poll_tasks = None \/ tasks[poll_tasks].pc = "done"

AliveTasks == {t \in 1..Len(tasks) : tasks[t].pc # "done"}

\* the dispatch of request r has ended with the given outcome: the send
\* time, the continuation, the request's result
Dispatched(r, outcome, result) ==
    [requests EXCEPT ![r] =
        [@ EXCEPT !.status = IF outcome = "ok" THEN "sent" ELSE "failed",
                  !.ret = result,
                  !.recorded = outcome = "ok",
                  !.callbacks = IF outcome \in CallbackOutcomes THEN @ + 1 ELSE @]]

\* async_send_tts_or_queue up to its first await: the immediate path begins
\* the dispatch, otherwise TTSPendingQueue.enqueue and return False
AsyncSendTtsOrQueue ==
    /\ Submitted < MaxRequests
    /\ LET r == Submitted + 1
           due == /\ player_state \in {"on", "idle", "standby"}
                  /\ ~sending
                  /\ (last_send_time = None \/ gate_now - last_send_time >= MIN_TTS_INTERVAL)
       IN  IF PlayerReady /\ CanSendNow
           THEN /\ sending' = TRUE
                /\ requests' = [requests EXCEPT ![r] =
                       [NoRequest EXCEPT !.status = "sending", !.ret = "pending",
                                         !.due = due]]
                /\ sent_order' = Append(sent_order, r)
                /\ UNCHANGED <<queues, poll_tasks, tasks>>
           ELSE /\ queues' = Append(queues, r)
                /\ requests' = [requests EXCEPT ![r] =
                       [NoRequest EXCEPT !.status = "queued", !.ret = "false",
                                         !.due = due]]
                /\ IF SpawnNeeded
                   THEN /\ tasks' = Append(tasks, [pc |-> "sleep",
                                                   wake |-> gate_now + POLL_INTERVAL,
                                                   item |-> 0])
                        /\ poll_tasks' = Len(tasks) + 1
                   ELSE UNCHANGED <<tasks, poll_tasks>>
                /\ UNCHANGED <<sending, sent_order>>
    /\ UNCHANGED <<gate_now, player_state, last_send_time>>
    /\ UNCHANGED restOfGate

\* the immediate path after the dispatch: send time, continuation, return
\* True; or the exception is raised again; finally the marker is discarded
ImmediateReturns ==
    /\ \E r \in 1..MaxRequests, outcome \in DispatchOutcomes :
        /\ requests[r].status = "sending"
        /\ requests' = Dispatched(r, outcome, IF outcome = "ok" THEN "true" ELSE "raised")
        /\ last_send_time' = IF outcome = "ok" THEN gate_now ELSE last_send_time
    /\ sending' = FALSE
    /\ UNCHANGED <<gate_now, player_state, queues, poll_tasks, tasks, sent_order>>
    /\ UNCHANGED restOfGate

\* _poll_until_ready after its sleep: the locked section, and _send_item up
\* to its first await
PollWakes ==
    /\ \E t \in 1..Len(tasks) :
        /\ tasks[t].pc = "sleep"
        /\ gate_now >= tasks[t].wake
        /\ IF queues = <<>>
           THEN /\ poll_tasks' = None
                /\ tasks' = [tasks EXCEPT ![t].pc = "done"]
                /\ UNCHANGED <<queues, sending, requests, sent_order>>
           ELSE IF ~PlayerReady
           THEN /\ tasks' = [tasks EXCEPT ![t].wake = gate_now + POLL_INTERVAL]
                /\ UNCHANGED <<queues, poll_tasks, sending, requests, sent_order>>
           ELSE /\ queues' = Tail(queues)
                /\ tasks' = [tasks EXCEPT ![t].pc = "send", ![t].item = Head(queues)]
                /\ sending' = TRUE
                /\ requests' = [requests EXCEPT ![Head(queues)].status = "polled"]
                /\ sent_order' = Append(sent_order, Head(queues))
                /\ UNCHANGED poll_tasks
    /\ UNCHANGED <<gate_now, player_state, last_send_time>>
    /\ UNCHANGED restOfGate

\* _send_item after the dispatch; when it raises, _poll_until_ready logs the
\* exception and the task ends, its entry staying in self._poll_tasks
PollSendReturns ==
    /\ \E t \in 1..Len(tasks), outcome \in DispatchOutcomes :
        /\ tasks[t].pc = "send"
        /\ requests' = Dispatched(tasks[t].item, outcome, "false")
        /\ last_send_time' = IF outcome = "ok" THEN gate_now ELSE last_send_time
        /\ tasks' = [tasks EXCEPT ![t] =
               IF outcome = "ok"
               THEN [pc |-> "sleep", wake |-> gate_now + POLL_INTERVAL, item |-> 0]
               ELSE [pc |-> "done", wake |-> @.wake, item |-> 0]]
    /\ sending' = FALSE
    /\ UNCHANGED <<gate_now, player_state, queues, poll_tasks, sent_order>>
    /\ UNCHANGED restOfGate

\* the media player reports another state
PlayerChanges ==
    /\ \E st \in PlayerStates \ {player_state} : player_state' = st
    /\ UNCHANGED <<gate_now, queues, poll_tasks, tasks, sending, last_send_time,
                   requests, sent_order>>
    /\ UNCHANGED restOfGate

\* one second passes; a sleeping poll task is resumed when its sleep ends
GateTimePasses ==
    /\ gate_now < MaxGateClock
    /\ \A t \in 1..Len(tasks) : tasks[t].pc = "sleep" => gate_now < tasks[t].wake
    /\ gate_now' = gate_now + 1
    /\ UNCHANGED <<player_state, queues, poll_tasks, tasks, sending,
                   last_send_time, requests, sent_order>>
    /\ UNCHANGED restOfGate

GateInit == MonitorInit

GateNext ==
    \/ AsyncSendTtsOrQueue
    \/ ImmediateReturns
    \/ PollWakes
    \/ PollSendReturns
    \/ PlayerChanges
    \/ GateTimePasses

SpecGate == GateInit /\ [][GateNext]_vars

(***************************************************************************)
(* Properties of the announcement gate.                                    *)
(***************************************************************************)
\* the requests whose dispatch is in progress, on either path
Dispatching == {r \in 1..MaxRequests : requests[r].status \in {"sending", "polled"}}
\* the requests whose call has returned or raised
Returned == {r \in 1..MaxRequests : requests[r].status \notin {"none", "sending"}}
InQueue(r) == \E i \in 1..Len(queues) : queues[i] = r
HasBegun(r) == \E i \in 1..Len(sent_order) : sent_order[i] = r

\* C11: never are two dispatches to the media player in progress at once, and
\* the sending marker is set exactly while a dispatch is in progress.
C11_OneDispatchAtATime ==
    /\ Cardinality(Dispatching) <= 1
    /\ sending <=> Dispatching # {}

\* C12: requests are dispatched in the order of their submission: the queue
\* holds its requests oldest first, and no request has begun its dispatch
\* while a request submitted before it waits in the queue.
C12_DispatchedInSubmissionOrder ==
    /\ \A i, j \in 1..Len(queues) : i < j => queues[i] < queues[j]
    /\ \A r \in 1..MaxRequests :
          InQueue(r) => \A q \in 1..MaxRequests : HasBegun(q) => q < r

\* C13: at most one poll task of the media player is alive.
C13_OnePollTask == Cardinality(AliveTasks) <= 1

\* a second poll task, created after the first one ended, is dispatching
\* while a request enqueued meanwhile waits without a third task
C13_Witness ==
    /\ Len(tasks) = 2
    /\ tasks[1].pc = "done"
    /\ tasks[2].pc = "send"
    /\ queues # <<>>

GetLightRestoreData ==
    [l \in {k \in LightIds : lights[k].state # "none"} |->
        [was_on |-> lights[l].state = "on",
         attr |-> IF lights[l].color_mode = "rgb" THEN "rgb_color"
                  ELSE IF lights[l].color_mode = "color_temp"
                       THEN "color_temp_kelvin"
                  ELSE "none",
         value |-> lights[l].value]]

\* light.turn_on for all of entity_ids with one colour attribute; a light
\* the platform does not know is not changed
TurnOnAll(mode, value) ==
    [l \in LightIds |->
        IF lights[l].state = "none" THEN lights[l]
        ELSE [state |-> "on", color_mode |-> mode, value |-> value]]

\* the call _async_restore_lights makes for one light: turn_off if it was
\* off, else turn_on with the stored attribute
RestoredLight(l, data) ==
    IF ~data.was_on THEN OffLight
    ELSE IF data.attr = "rgb_color"
         THEN [state |-> "on", color_mode |-> "rgb", value |-> data.value]
    ELSE IF data.attr = "color_temp_kelvin"
         THEN [state |-> "on", color_mode |-> "color_temp", value |-> data.value]
    ELSE [lights[l] EXCEPT !.state = "on"]

\* _async_restore_lights as written: every light of restore_data
RestoreTargets == DOMAIN restore_data
RestoreLights ==
    [l \in LightIds |->
        IF l \in RestoreTargets THEN RestoredLight(l, restore_data[l])
        ELSE lights[l]]

\* what asyncio.gather does when the task of async_send_tts raised: the
\* exception leaves _do_lights_and_tts at the await, before the restore
AfterTtsError == "raised"

\* _do_lights_and_tts up to the await of gather
BeginAnnouncement ==
    /\ do_pc = "none"
    /\ restore_data' = GetLightRestoreData
    /\ prior' = lights
    /\ tts_task' = "running"
    /\ light_task' = "check"
    /\ do_pc' = "gather"
    /\ UNCHANGED lights
    /\ UNCHANGED restOfLights

\* the task of async_send_tts ends, by returning or by raising
TtsTaskEnds ==
    /\ tts_task = "running"
    /\ \E outcome \in DispatchOutcomes :
          tts_task' = IF outcome = "ok" THEN "ok" ELSE "failed"
    /\ UNCHANGED <<lights, restore_data, do_pc, light_task, prior>>
    /\ UNCHANGED restOfLights

\* one step of _async_light_warning_loop, from one await to the next
LightLoopStep ==
    /\ light_task \in {"check", "sleep_rgb", "sleep_temp"}
    /\ IF tts_task # "running"
       THEN /\ light_task' = "done"
            /\ UNCHANGED lights
       ELSE IF light_task \in {"check", "sleep_temp"}
       THEN /\ lights' = TurnOnAll("rgb", WarningRgb)
            /\ light_task' = "sleep_rgb"
       ELSE /\ lights' = TurnOnAll("color_temp", WarningKelvin)
            /\ light_task' = "sleep_temp"
    /\ UNCHANGED <<restore_data, do_pc, tts_task, prior>>
    /\ UNCHANGED restOfLights

\* asyncio.gather(tts_task, light_task) returns when both tasks are done, or
\* raises as soon as the task of async_send_tts has raised
GatherEnds ==
    /\ do_pc = "gather"
    /\ \/ /\ tts_task = "ok"
          /\ light_task = "done"
          /\ do_pc' = "restore"
       \/ /\ tts_task = "failed"
          /\ do_pc' = AfterTtsError
    /\ UNCHANGED <<lights, restore_data, tts_task, light_task, prior>>
    /\ UNCHANGED restOfLights

\* await self._async_restore_lights(wrgb_lights, restore_data)
AsyncRestoreLights ==
    /\ do_pc = "restore"
    /\ lights' = RestoreLights
    /\ do_pc' = "done"
    /\ UNCHANGED <<restore_data, tts_task, light_task, prior>>
    /\ UNCHANGED restOfLights

LightsInit ==
    /\ now = 0
    /\ cfg = [stove_safety_enabled |-> TRUE, microwave_safety_enabled |-> FALSE,
              media_player |-> TRUE, stove_on_debounce_seconds |-> 0]
    /\ stove = StoveDefaults
    /\ calls = <<>>
    /\ raised = FALSE
    /\ inp = NoReadings
    /\ ticks = 0
    /\ obs = NoObs
    /\ MonitorConstructed
    /\ GateConstructed
    /\ ConfigConstructed
    /\ FurtherConstructed
    /\ RoomConstructed
    /\ lights \in [LightIds -> LightStates]
    /\ NoAnnouncement
    /\ LedgerConstructed

LightsNext ==
    \/ BeginAnnouncement
    \/ TtsTaskEnds
    \/ LightLoopStep
    \/ GatherEnds
    \/ AsyncRestoreLights

SpecLights == LightsInit /\ [][LightsNext]_vars

\* the announcement has ended and its light loop has stopped
AnnouncementOver == do_pc \in {"done", "raised"} /\ light_task = "done"

\* C16: after an announcement in light-warning mode has ended, by returning
\* or by raising, every light that was captured before it is in the on/off
\* and colour state it had then.
C16_LightsRestoredOnEveryOutcome ==
    AnnouncementOver =>
        \A l \in DOMAIN restore_data : lights[l] = prior[l]

(***************************************************************************)
(* ConfigManager: the day's ledger, the event counts, the enforcement      *)
(* state, the daily totals, and the pass of the monitor that writes them.  *)
(***************************************************************************)
\* dict.get(k, default)
Get(d, k, default) == IF k \in DOMAIN d THEN d[k] ELSE default
\* d[k] = v
Put(d, k, v) == [x \in DOMAIN d \cup {k} |-> IF x = k THEN v ELSE d[x]]

\* get_day_energy
GetDayEnergy(k) == Get(day_energy_data, k, 0)

\* round(wh, 2) of an energy in watt-seconds, in hundredths of a Wh (36
\* watt-seconds); the readings are multiples of 12 watt-seconds, so no value
\* lies half way between two hundredths
Round2(ws) == (ws + 18) \div 36

\* the row that async_snapshot_day_and_reset_if_rolled_over and
\* _build_today_totals build from a ledger and event counts
BuildTotals(ledger, counts) ==
    LET room_wh == Round2(Get(ledger, LedgerKeys[1], 0) + Get(ledger, LedgerKeys[2], 0))
    IN  [total_wh |-> room_wh,
         total_warnings |-> counts.total_warnings,
         total_shutoffs |-> counts.total_shutoffs,
         rooms |-> [r \in {LedgerRoom} |->
                      [wh |-> room_wh,
                       warnings |-> Get(counts.room_warnings, r, 0),
                       shutoffs |-> Get(counts.room_shutoffs, r, 0)]]]

\* the test of async_add_energy_reading for a new day
LedgerStale_Never == FALSE
LedgerStale == last_reset_date # today

\* _ensure_event_counts_for_today
EnsuredEventCounts ==
    IF event_counts_reset_date # today THEN ZeroEventCounts ELSE event_counts
\* _ensure_enforcement_state_for_today
EnsuredEnforcementState ==
    IF enforcement_reset_date # today THEN EmptyDict ELSE enforcement_state

\* the payloads of the _async_save_ functions
EnergyPayload(stamp, ledger) == [last_reset_date |-> stamp, outlets |-> ledger]
CountsPayload(stamp, counts) ==
    [last_reset_date |-> IF stamp # None THEN stamp ELSE today, counts |-> counts]
EnforcementPayload(stamp, rooms) == [reset_date |-> stamp, rooms |-> rooms]

\* the history's entry for a ledger with energy that is cleared
Cleared(ledger, date, by, totals) ==
    IF Get(ledger, LedgerKeys[1], 0) + Get(ledger, LedgerKeys[2], 0) = 0
       \/ date = None
    THEN {}
    ELSE {[date |-> date, by |-> by, archived |-> date \in DOMAIN totals]}

\* the local date changes
Midnight ==
    /\ ledger_hist.days < MaxDay
    /\ today' = today + 1
    /\ ledger_hist' =
          [ledger_hist EXCEPT !.since = [k \in DOMAIN ledger_hist.since |-> 0],
                              !.days = @ + 1]
    /\ UNCHANGED <<day_energy_data, last_reset_date, event_counts,
                   event_counts_reset_date, enforcement_state,
                   enforcement_reset_date, daily_totals, energy_file,
                   counts_file, enforcement_file, pass_pc, save_counter>>
    /\ UNCHANGED restOfLedger

\* _async_save_daily_totals keeps the 45 latest dates of the history; the
\* dates are "%Y-%m-%d" strings, whose order is the order of the days
DAILY_TOTALS_KEEP == 45
KeptDates_All(dates) == dates
KeptDates(dates) ==
    {d \in dates : Cardinality({e \in dates : e > d}) < DAILY_TOTALS_KEEP}
SaveDailyTotals(totals) == [d \in KeptDates(DOMAIN totals) |-> totals[d]]

\* a pass of _check_energy begins: async_snapshot_day_and_reset_if_rolled_over
SnapshotDayAndResetIfRolledOver ==
    /\ pass_pc = "idle"
    /\ ledger_hist.passes < MaxLedgerPasses
    /\ pass_pc' = "plug1"
    /\ LET old_date == IF last_reset_date # None THEN last_reset_date
                       ELSE event_counts_reset_date
       IN  IF old_date = None \/ old_date = today
           THEN UNCHANGED <<day_energy_data, last_reset_date, event_counts,
                            event_counts_reset_date, daily_totals, energy_file,
                            counts_file, ledger_hist>>
           ELSE /\ daily_totals' =
                      SaveDailyTotals(
                          Put(daily_totals, old_date,
                              BuildTotals(day_energy_data, event_counts)))
                /\ day_energy_data' = EmptyDict
                /\ last_reset_date' = today
                /\ event_counts' = ZeroEventCounts
                /\ event_counts_reset_date' = today
                /\ energy_file' = EnergyPayload(today, EmptyDict)
                /\ counts_file' = CountsPayload(today, ZeroEventCounts)
                /\ ledger_hist' =
                      [ledger_hist EXCEPT !.cleared =
                          @ \cup Cleared(day_energy_data, last_reset_date,
                                         "rollover", daily_totals')]
    /\ UNCHANGED <<today, enforcement_state, enforcement_reset_date,
                   enforcement_file, save_counter>>
    /\ UNCHANGED restOfLedger

\* async_add_energy_reading(key, watts, elapsed_seconds=1.0) for the two
\* plugs of the outlet, in the order of the pass
AsyncAddEnergyReading ==
    /\ pass_pc \in {"plug1", "plug2"}
    /\ \E watts \in Watts :
          LET k == IF pass_pc = "plug1" THEN LedgerKeys[1] ELSE LedgerKeys[2]
              base == IF LedgerStale THEN EmptyDict ELSE day_energy_data
          IN  /\ day_energy_data' = Put(base, k, Get(base, k, 0) + watts * 1)
              /\ last_reset_date' = IF LedgerStale THEN today ELSE last_reset_date
              /\ ledger_hist' =
                    [ledger_hist EXCEPT
                        !.since[k] = @ + watts * 1,
                        !.cleared =
                            IF LedgerStale
                            THEN @ \cup Cleared(day_energy_data, last_reset_date,
                                                "reading", daily_totals)
                            ELSE @]
    /\ pass_pc' = IF pass_pc = "plug1" THEN "plug2" ELSE "end"
    /\ UNCHANGED <<today, event_counts, event_counts_reset_date,
                   enforcement_state, enforcement_reset_date, daily_totals,
                   energy_file, counts_file, enforcement_file, save_counter>>
    /\ UNCHANGED restOfLedger

\* async_increment_warning(room) or async_increment_shutoff(room)
AsyncIncrement(total, per_room) ==
    /\ pass_pc = "end"
    /\ ledger_hist.events < MaxEvents
    /\ LET counts == EnsuredEventCounts
       IN  /\ event_counts' =
                 [counts EXCEPT
                     ![total] = @ + 1,
                     ![per_room] = Put(@, LedgerRoom, Get(@, LedgerRoom, 0) + 1)]
           /\ event_counts_reset_date' = today
           /\ counts_file' = CountsPayload(today, event_counts')
    /\ ledger_hist' = [ledger_hist EXCEPT !.events = @ + 1]
    /\ UNCHANGED <<today, day_energy_data, last_reset_date, enforcement_state,
                   enforcement_reset_date, daily_totals, energy_file,
                   enforcement_file, pass_pc, save_counter>>
    /\ UNCHANGED restOfLedger

AsyncIncrementWarning == AsyncIncrement("total_warnings", "room_warnings")
AsyncIncrementShutoff == AsyncIncrement("total_shutoffs", "room_shutoffs")

\* get_enforcement_state(room), as _check_power_enforcement calls it
GetEnforcementState ==
    /\ pass_pc = "end"
    /\ enforcement_state' =
          Put(EnsuredEnforcementState, LedgerRoom,
              Get(EnsuredEnforcementState, LedgerRoom, 0))
    /\ enforcement_reset_date' = today
    /\ UNCHANGED <<today, day_energy_data, last_reset_date, event_counts,
                   event_counts_reset_date, daily_totals, energy_file,
                   counts_file, enforcement_file, pass_pc, save_counter,
                   ledger_hist>>
    /\ UNCHANGED restOfLedger

\* async_record_threshold_warning(room, watts); the state of a room is the
\* number of its warnings
AsyncRecordThresholdWarning ==
    /\ pass_pc = "end"
    /\ Get(EnsuredEnforcementState, LedgerRoom, 0) < MaxEvents
    /\ enforcement_state' =
          Put(EnsuredEnforcementState, LedgerRoom,
              Get(EnsuredEnforcementState, LedgerRoom, 0) + 1)
    /\ enforcement_reset_date' = today
    /\ enforcement_file' = EnforcementPayload(today, enforcement_state')
    /\ UNCHANGED <<today, day_energy_data, last_reset_date, event_counts,
                   event_counts_reset_date, daily_totals, energy_file,
                   counts_file, pass_pc, save_counter, ledger_hist>>
    /\ UNCHANGED restOfLedger

\* the end of the pass: every SAVE_EVERY_PASSES passes
\* async_save_persistent_data
EndPass ==
    /\ pass_pc = "end"
    /\ pass_pc' = "idle"
    /\ ledger_hist' = [ledger_hist EXCEPT !.passes = @ + 1]
    /\ IF save_counter + 1 >= SAVE_EVERY_PASSES
       THEN /\ save_counter' = 0
            /\ energy_file' = EnergyPayload(last_reset_date, day_energy_data)
            /\ enforcement_file' =
                  EnforcementPayload(enforcement_reset_date, enforcement_state)
            /\ counts_file' = CountsPayload(event_counts_reset_date, event_counts)
       ELSE /\ save_counter' = save_counter + 1
            /\ UNCHANGED <<energy_file, enforcement_file, counts_file>>
    /\ UNCHANGED <<today, day_energy_data, last_reset_date, event_counts,
                   event_counts_reset_date, enforcement_state,
                   enforcement_reset_date, daily_totals>>
    /\ UNCHANGED restOfLedger

\* what the three dashboard queries do to the state: each calls
\* _ensure_event_counts_for_today before it reads
QueryReadsEventCounts ==
    /\ event_counts' = EnsuredEventCounts
    /\ event_counts_reset_date' = today
    /\ UNCHANGED <<today, day_energy_data, last_reset_date, enforcement_state,
                   enforcement_reset_date, daily_totals, energy_file,
                   counts_file, enforcement_file, pass_pc, save_counter,
                   ledger_hist>>
    /\ UNCHANGED restOfLedger

\* get_event_counts (websocket_get_config)
GetEventCounts == QueryReadsEventCounts
\* get_daily_history(days), through _build_today_totals for today's row
GetDailyHistory == QueryReadsEventCounts
\* get_intraday_events(room_id)
GetIntradayEvents == QueryReadsEventCounts

\* the integration is set up again: a new ConfigManager loads the files
\* (async_load), a new EnergyMonitor starts; nothing is saved on the way down
Restart ==
    /\ ledger_hist.restarts < MaxRestarts
    /\ LET stale == energy_file.last_reset_date # today
           counts_stale == counts_file.last_reset_date # today
           rooms_stale == enforcement_file.reset_date # today
       IN  /\ day_energy_data' = IF stale THEN EmptyDict ELSE energy_file.outlets
           /\ last_reset_date' = today
           /\ energy_file' = IF stale THEN EnergyPayload(today, EmptyDict)
                             ELSE energy_file
           /\ event_counts' = IF counts_stale THEN ZeroEventCounts
                              ELSE counts_file.counts
           /\ event_counts_reset_date' = today
           /\ enforcement_state' = IF rooms_stale THEN EmptyDict
                                   ELSE enforcement_file.rooms
           /\ enforcement_reset_date' = today
           /\ ledger_hist' =
                 [ledger_hist EXCEPT
                     !.restarts = @ + 1,
                     !.since = [k \in DOMAIN @ |-> Get(day_energy_data', k, 0)],
                     !.cleared =
                         IF stale
                         THEN @ \cup Cleared(energy_file.outlets,
                                             energy_file.last_reset_date,
                                             "load", daily_totals)
                         ELSE @]
    /\ pass_pc' = "idle"
    /\ save_counter' = 0
    /\ UNCHANGED <<today, daily_totals, counts_file, enforcement_file>>
    /\ UNCHANGED restOfLedger

\* async_unload_entry or EnergyMonitor.async_stop: the monitor task is
\* cancelled wherever its pass is; neither of them calls a save function
ControlledShutdown ==
    /\ pass_pc # "stopped"
    /\ pass_pc' = "stopped"
    /\ UNCHANGED <<today, day_energy_data, last_reset_date, event_counts,
                   event_counts_reset_date, enforcement_state,
                   enforcement_reset_date, daily_totals, energy_file,
                   counts_file, enforcement_file, save_counter, ledger_hist>>
    /\ UNCHANGED restOfLedger

LedgerInit ==
    /\ now = 0
    /\ cfg = [stove_safety_enabled |-> TRUE, microwave_safety_enabled |-> FALSE,
              media_player |-> TRUE, stove_on_debounce_seconds |-> 0]
    /\ stove = StoveDefaults
    /\ calls = <<>>
    /\ raised = FALSE
    /\ inp = NoReadings
    /\ ticks = 0
    /\ obs = NoObs
    /\ MonitorConstructed
    /\ GateConstructed
    /\ ConfigConstructed
    /\ FurtherConstructed
    /\ RoomConstructed
    /\ LightsConstructed
    /\ LedgerLoadedOnDay0
    /\ save_counter \in SaveCounterStarts

LedgerNext ==
    \/ Midnight
    \/ SnapshotDayAndResetIfRolledOver
    \/ AsyncAddEnergyReading
    \/ AsyncIncrementWarning
    \/ AsyncIncrementShutoff
    \/ GetEnforcementState
    \/ AsyncRecordThresholdWarning
    \/ EndPass
    \/ GetEventCounts
    \/ GetDailyHistory
    \/ GetIntradayEvents
    \/ ControlledShutdown
    \/ Restart

SpecLedger == LedgerInit /\ [][LedgerNext]_vars

(***************************************************************************)
(* Properties of the ledger.                                               *)
(***************************************************************************)
\* C17: whenever a ledger with a previous date's energy has been cleared for
\* a new date, by the rollover check, by a reading or by the load at startup,
\* the daily total of that date was in the history first.
C17_SnapshotBeforeEveryClear ==
    \A e \in ledger_hist.cleared : e.archived

\* the ledger, the event counts and the enforcement state: the date stamp of
\* each and whether it holds data
DayStores ==
    {[stamp |-> last_reset_date, holds |-> DOMAIN day_energy_data # {}],
     [stamp |-> event_counts_reset_date, holds |-> event_counts # ZeroEventCounts],
     [stamp |-> enforcement_reset_date, holds |-> DOMAIN enforcement_state # {}]}

\* the rollover check finds that the date has changed and resets
RolloverPerformed ==
    SnapshotDayAndResetIfRolledOver /\ last_reset_date' # last_reset_date

\* C18: a rollover clears the ledger, the event counts and the enforcement
\* state together: when async_snapshot_day_and_reset_if_rolled_over has
\* performed a rollover, none of the three still holds data under the stamp
\* of a previous date.
C18_ResetTogether ==
    [][RolloverPerformed =>
          \A a \in DayStores' : ~(a.holds /\ a.stamp # today')]_vars

RolloverCheckOnUnchangedDate ==
    SnapshotDayAndResetIfRolledOver /\ last_reset_date = today

C20_QueriesChangeNothing ==
    [][GetEventCounts \/ GetDailyHistory \/ GetIntradayEvents =>
          UNCHANGED <<day_energy_data, last_reset_date, event_counts>>]_vars

\* C29: whenever the queue of the media player holds a request, a poll
\* task of the media player is alive, also after a queued dispatch raised.
C29_QueueHasLivePollTask ==
    queues # <<>> => AliveTasks # {}

\* C26: a controlled shutdown writes the ledger to its file, so that the
\* readings added since the last periodic save are in the file when the
\* integration has stopped.
C26_ShutdownFlushes ==
    [][ControlledShutdown =>
          \A k \in {LedgerKeys[1], LedgerKeys[2]} :
              Get(energy_file'.outlets, k, 0) = GetDayEnergy(k)]_vars

(***************************************************************************)
(* The history of daily totals when it is nearly full: the installation    *)
(* has been loaded on a day on which the history holds one date less than  *)
(* it keeps, or as many as it keeps, with or without one day missing.      *)
(***************************************************************************)
HistorySizes == {DAILY_TOTALS_KEEP - 1, DAILY_TOTALS_KEEP}

\* the dates in a history of n dates: the days before today, all of them
\* (gap = 0) or all but the day gap
StoredDates(n, gap) == IF gap = 0 THEN 0..(n - 1) ELSE (0..n) \ {gap}

HistoryInit ==
    /\ now = 0
    /\ cfg = [stove_safety_enabled |-> TRUE, microwave_safety_enabled |-> FALSE,
              media_player |-> TRUE, stove_on_debounce_seconds |-> 0]
    /\ stove = StoveDefaults
    /\ calls = <<>>
    /\ raised = FALSE
    /\ inp = NoReadings
    /\ ticks = 0
    /\ obs = NoObs
    /\ MonitorConstructed
    /\ GateConstructed
    /\ ConfigConstructed
    /\ FurtherConstructed
    /\ RoomConstructed
    /\ LightsConstructed
    /\ \E n \in HistorySizes, gap \in 0..(DAILY_TOTALS_KEEP - 1) :
          /\ gap < n
          /\ today = IF gap = 0 THEN n ELSE n + 1
          /\ daily_totals =
                [d \in StoredDates(n, gap) |-> BuildTotals(EmptyDict, ZeroEventCounts)]
    /\ day_energy_data = EmptyDict
    /\ last_reset_date = today
    /\ event_counts = ZeroEventCounts
    /\ event_counts_reset_date = today
    /\ enforcement_state = EmptyDict
    /\ enforcement_reset_date = today
    /\ energy_file = EnergyPayload(today, EmptyDict)
    /\ counts_file = NoCountsFile
    /\ enforcement_file = NoEnforcementFile
    /\ pass_pc = "idle"
    /\ save_counter = 0
    /\ ledger_hist = NoLedgerHistory

HistoryNext ==
    \/ Midnight
    \/ SnapshotDayAndResetIfRolledOver
    \/ AsyncAddEnergyReading
    \/ EndPass

SpecHistory == HistoryInit /\ [][HistoryNext]_vars

\* C21: the history of daily totals never holds more than 45 dates, and the
\* dates a step removes from it are older than every date it keeps.
C21_HistoryKeepsLatest45 ==
    /\ [](Cardinality(DOMAIN daily_totals) <= 45)
    /\ [][\A d \in DOMAIN daily_totals \ DOMAIN daily_totals' :
             \A e \in DOMAIN daily_totals' : d < e]_vars

\* two rollovers on a full history: it holds 45 dates, the two oldest are
\* gone and yesterday's total is in it
C21_Witness ==
    /\ ledger_hist.days = 2
    /\ Cardinality(DOMAIN daily_totals) = 45
    /\ 0 \notin DOMAIN daily_totals
    /\ today - 1 \in DOMAIN daily_totals
    /\ today - 2 \in DOMAIN daily_totals

\* C28: on a pass that finds a breaker at or above its max load, with no
\* cycle of it in flight and its shutoff cooldown over, the turn_off for the
\* breaker's switches is called on that pass, whether or not the breaker's
\* announcements can be delivered.
C28_BreakerShutoffDespiteAnnouncement ==
    [][\A b \in BreakerIds :
          BreakerLine /\ last_breaker_shutoffs'[b] # last_breaker_shutoffs[b] =>
              mcalls' = <<<<"turn_off", "breaker", b>>>>]_vars

(***************************************************************************)
(* SpecConfig: the energy configuration.  async_update_energy validates    *)
(* what the dashboard sends and saves it; async_load reads the file back   *)
(* when the integration is set up again.  The tts, enforcement and         *)
(* statistics settings are not part of this model.                         *)
(***************************************************************************)
\* EnergyMonitor.__init__ for the stove state, before any pass
StoveConstructed ==
    /\ now = 0
    /\ cfg = [stove_safety_enabled |-> TRUE, microwave_safety_enabled |-> FALSE,
              media_player |-> TRUE, stove_on_debounce_seconds |-> 0]
    /\ stove = StoveDefaults
    /\ calls = <<>>
    /\ raised = FALSE
    /\ inp = NoReadings
    /\ ticks = 0
    /\ obs = NoObs

\* a text-valued key that the incoming dict does not hold
Absent == "(absent)"

\* the outlet types _validate_energy_config knows
KnownOutletTypes ==
    {"outlet", "single_outlet", "stove", "microwave", "minisplit", "light",
     "fridge", "ceiling_vent_fan"}
\* the types whose plug1_shutoff is taken from the incoming outlet
ShutoffOutletTypes == {"outlet", "single_outlet", "minisplit", "fridge"}

\* what the dashboard can send
RawOutlets ==
    [name : {"", "Desk"}, type : {Absent, "stove", "heater"},
     threshold : {None, 50}, plug1_shutoff : {70}]
RawRooms ==
    [id : {Absent, "den"}, name : {"", "Living Room"}, threshold : {50},
     kwh_budget : {None, 3},
     outlets : {<<>>} \cup {<<o>> : o \in RawOutlets}]
RawBreakers ==
    [name : {"Line A"}, number : {None, 35}, max_load : {None, 1800}]
RawPanelSizes == {None, 0, 7, 30, 42}
IncomingConfigs ==
    [rooms : {<<>>} \cup {<<r>> : r \in RawRooms},
     breaker_lines : {<<>>} \cup {<<b>> : b \in RawBreakers},
     breaker_panel_size : RawPanelSizes]

\* d.get(key, default) for a number-valued key
GetInt(val, default) == IF val = None THEN default ELSE val
\* _safe_int(val, default) of an integer or None
SafeInt(val, default) == IF val = None THEN default ELSE val
\* name.lower().replace(" ", "_")
Slug(name) == IF name = "Living Room" THEN "living_room" ELSE name

\* the item built for an outlet
ValidatedOutlet(outlet) ==
    LET outlet_type == IF outlet.type \in KnownOutletTypes THEN outlet.type
                       ELSE "outlet"
    IN  [name |-> outlet.name,
         type |-> outlet_type,
         threshold |-> GetInt(outlet.threshold, 0),
         plug1_shutoff |-> IF outlet_type \in ShutoffOutletTypes
                           THEN GetInt(outlet.plug1_shutoff, 0) ELSE 0]

\* the outlets with a name, validated, in their order
RECURSIVE ValidatedOutlets(_)
ValidatedOutlets(outlets) ==
    IF outlets = <<>> THEN <<>>
    ELSE (IF Head(outlets).name # "" THEN <<ValidatedOutlet(Head(outlets))>>
          ELSE <<>>) \o ValidatedOutlets(Tail(outlets))

ValidatedRoom(room) ==
    [id |-> IF room.id = Absent THEN Slug(room.name) ELSE room.id,
     name |-> room.name,
     threshold |-> GetInt(room.threshold, 0),
     kwh_budget |-> Max(0, GetInt(room.kwh_budget, 5)),
     outlets |-> ValidatedOutlets(room.outlets)]

RECURSIVE ValidatedRooms(_)
ValidatedRooms(rooms) ==
    IF rooms = <<>> THEN <<>>
    ELSE (IF Head(rooms).name # "" THEN <<ValidatedRoom(Head(rooms))>>
          ELSE <<>>) \o ValidatedRooms(Tail(rooms))

\* validated["breaker_panel_size"]
ValidatedPanelSize(raw) ==
    LET panel_size == SafeInt(raw, 20)
    IN  IF panel_size # 0 /\ panel_size % 2 = 0 THEN Max(2, Min(40, panel_size))
        ELSE 20

ValidatedBreaker(breaker, size) ==
    [name |-> breaker.name,
     number |-> Max(1, Min(size, GetInt(breaker.number, 1))),
     max_load |-> GetInt(breaker.max_load, 2400)]

RECURSIVE ValidatedBreakers(_, _)
ValidatedBreakers(lines, size) ==
    IF lines = <<>> THEN <<>>
    ELSE (IF Head(lines).name # "" THEN <<ValidatedBreaker(Head(lines), size)>>
          ELSE <<>>) \o ValidatedBreakers(Tail(lines), size)

\* _validate_energy_config
ValidateEnergyConfig(config) ==
    LET size == ValidatedPanelSize(config.breaker_panel_size)
    IN  [rooms |-> ValidatedRooms(config.rooms),
         breaker_lines |-> ValidatedBreakers(config.breaker_lines, size),
         breaker_panel_size |-> size]

\* _merge_with_defaults: the rooms and the breaker lines of the file are put
\* into a copy of DEFAULT_CONFIG
MergeWithDefaults(loaded) ==
    [DefaultEnergy EXCEPT !.rooms = loaded.rooms,
                          !.breaker_lines = loaded.breaker_lines]

\* async_update_energy: breaker_lines and breaker_panel_size keep their
\* existing values when the incoming config omits them or sends them empty
AsyncUpdateEnergy ==
    /\ \E incoming \in IncomingConfigs :
          LET merged ==
                  [incoming EXCEPT
                      !.breaker_lines =
                          IF @ = <<>> THEN energy_config.breaker_lines ELSE @,
                      !.breaker_panel_size =
                          IF @ = None THEN energy_config.breaker_panel_size ELSE @]
          IN  energy_config' = ValidateEnergyConfig(merged)
    /\ config_file' = energy_config'
    /\ UNCHANGED restOfConfig

\* async_load when the integration is set up again
AsyncLoad ==
    /\ energy_config' = MergeWithDefaults(config_file)
    /\ UNCHANGED config_file
    /\ UNCHANGED restOfConfig

ConfigInit ==
    /\ StoveConstructed
    /\ MonitorConstructed
    /\ GateConstructed
    /\ LightsConstructed
    /\ LedgerConstructed
    /\ ConfigConstructed
    /\ FurtherConstructed
    /\ RoomConstructed

ConfigNext == AsyncUpdateEnergy \/ AsyncLoad

SpecConfig == ConfigInit /\ [][ConfigNext]_vars

\* C27: a configuration stored by async_update_energy and loaded again by
\* async_load is the structure that was stored: no validated field is dropped
\* or altered by saving and reloading (a panel size that is not there reads
\* as the default of 20).
C27_ReloadYieldsStoredConfig ==
    [][AsyncLoad =>
          /\ energy_config'.rooms = config_file.rooms
          /\ energy_config'.breaker_lines = config_file.breaker_lines
          /\ GetInt(energy_config'.breaker_panel_size, 20) =
                 GetInt(config_file.breaker_panel_size, 20)]_vars

(***************************************************************************)
(* SpecRoom: the passes of _check_energy over the room.  A pass reads the  *)
(* two plugs, runs the plug shutoff, the outlet warning and the room       *)
(* warning, then _check_power_enforcement, and sleeps.  The room uses less *)
(* than the first kWh interval and the home less than its kWh limit, so    *)
(* the kWh alerts of _check_power_enforcement are never due.  The stages   *)
(* of a pass take no time; time passes, and the date can change, while the *)
(* task sleeps between two passes or inside a cycle.                       *)
(***************************************************************************)
\* how an announcement handed to _async_send_tts_with_lights ends: it is
\* dispatched at once, it is put into the queue (player not ready or
\* throttled), or the dispatch raises
TtsResults == {"sent", "queued", "raises"}

\* the room's id
Room == "r1"

\* get_room_day_kwh, in watt-seconds
RoomDayEnergy(energy) == energy.plug1 + energy.plug2

\* the ledger after the reset for a new date
EmptyRoomEnergy == [plug1 |-> 0, plug2 |-> 0, last_reset_date |-> room_today]
\* the event counts after the reset for a new date
ZeroRoomCounts == [warnings |-> 0, shutoffs |-> 0, reset_date |-> room_today]

\* async_add_energy_reading(key, watts, elapsed_seconds=1.0)
AddEnergyReading(energy, key, watts) ==
    LET base == IF energy.last_reset_date # room_today THEN EmptyRoomEnergy
                ELSE energy
    IN  [base EXCEPT ![key] = @ + watts * 1]

\* _ensure_event_counts_for_today, then async_increment_warning or
\* async_increment_shutoff
Incremented(kind) ==
    LET counts == IF room_counts.reset_date # room_today THEN ZeroRoomCounts
                  ELSE room_counts
    IN  [counts EXCEPT ![kind] = @ + 1]

\* async_add_event_log_entry; delivered is history: whether the announcement
\* of the entry was dispatched to the media player
Logged(log, type, outlet_name, tts_succeeded, delivered) ==
    LET all == Append(log, [type |-> type, outlet_name |-> outlet_name,
                            tts_succeeded |-> tts_succeeded,
                            delivered |-> delivered])
    IN  IF Len(all) > EventLogKept
        THEN SubSeq(all, Len(all) - EventLogKept + 1, Len(all))
        ELSE all

\* _ensure_enforcement_state_for_today and get_enforcement_state
EnsuredEnforcement ==
    IF enforcement.reset_date # room_today
    THEN [state |-> NewEnforcementState, reset_date |-> room_today]
    ELSE enforcement

\* async_record_threshold_warning: the warning is appended and the warnings
\* of the last hour are kept
Recorded(enf) ==
    [enf EXCEPT !.state.warnings =
        SelectSeq(Append(@, room_now), LAMBDA ts : ts >= room_now - 3600)]

\* get_warnings_in_window
WarningsInWindow(warnings, minutes) ==
    Len(SelectSeq(warnings, LAMBDA ts : ts >= room_now - minutes * 60))

\* check_phase_reset
CheckPhaseReset(warnings, reset_minutes) ==
    IF warnings = <<>> THEN TRUE
    ELSE LET last_warning ==
                 CHOOSE t \in {warnings[i] : i \in 1..Len(warnings)} :
                     \A i \in 1..Len(warnings) : warnings[i] <= t
         IN  room_now - last_warning >= reset_minutes * 60

\* the phase _send_room_alert sets: the phase-2 trigger is tested first
EscalatedPhase_Phase1First(phase, p1, p2) == IF p1 THEN 1 ELSE IF p2 THEN 2 ELSE phase
EscalatedPhase(phase, p1, p2) == IF p2 THEN 2 ELSE IF p1 THEN 1 ELSE phase

Announcement(what, result) == [kind |-> "announce", what |-> what, result |-> result]
\* the room warning, announced at its effective volume
AnnouncementAt(what, result, volume) ==
    [kind |-> "announce", what |-> what, result |-> result, volume |-> volume]

\* async_increment_volume_offset
IncrementedVolumeOffset_Unbounded(current, increment) == current + increment
IncrementedVolumeOffset(current, increment) == Min(100, current + increment)

\* effective_volume of _send_room_alert, in percent
EffectiveVolume(phase, offset) ==
    LET louder == IF phase >= 1 THEN Min(100, room_volume + offset) ELSE room_volume
    IN  IF phase >= 2 THEN Min(louder, Max(0, Min(100, phase2_max_volume)))
        ELSE louder
SwitchCall(service, result) == [kind |-> service, what |-> "plug1_switch", result |-> result]

\* an exception leaves _check_energy; _monitor_loop logs it and sleeps
RoomPassRaises ==
    /\ rpc' = "sleep"
    /\ room_wake' = room_now + ENERGY_CHECK_INTERVAL
    /\ room_hist' = [room_hist EXCEPT !.passes = @ + 1]

\* the pass begins: the rollover of the ledger, the budget of the room and,
\* once a day, the announcement that the budget is exceeded
RoomPassBegins ==
    /\ rpc = "sleep"
    /\ room_now >= room_wake
    /\ room_hist.passes < MaxRoomPasses
    /\ \E readings \in PlugReadings, tts \in TtsResults :
          LET rolled == room_energy.last_reset_date # room_today
              energy == IF rolled THEN EmptyRoomEnergy ELSE room_energy
              announced == IF budget_announced.date # room_today
                           THEN [rooms |-> {}, date |-> room_today]
                           ELSE budget_announced
              budget_exceeded == kwh_budget <= 0 \/ RoomDayEnergy(energy) >= kwh_budget
              announce == budget_exceeded /\ kwh_budget > 0 /\ Room \notin announced.rooms
          IN  /\ room_energy' = energy
              /\ room_counts' = IF rolled THEN ZeroRoomCounts ELSE room_counts
              /\ budget_announced' =
                     IF announce THEN [announced EXCEPT !.rooms = @ \cup {Room}]
                     ELSE announced
              /\ room_pass' = [NoRoomPass EXCEPT !.readings = readings,
                                                 !.budget_exceeded = budget_exceeded,
                                                 !.started = room_now]
              /\ room_calls' = IF announce
                               THEN <<Announcement("budget_exceeded_msg", tts)>>
                               ELSE <<>>
              /\ IF announce /\ tts = "raises"
                 THEN \* only KeyError and ValueError are caught
                      RoomPassRaises
                 ELSE /\ rpc' = "plug1"
                      /\ UNCHANGED <<room_wake, room_hist>>
    /\ UNCHANGED <<room_now, room_today, power_enforcement, event_log,
                   enforcement, last_alerts, plug_pending>>
    /\ UNCHANGED restOfRoom

\* plug 1: the reading is added to the ledger; _handle_plug_shutoff up to its
\* asyncio.sleep(SHUTOFF_RESET_DELAY) or to its end
RoomPlug1 ==
    /\ rpc = "plug1"
    /\ \E outcome \in {"ok", "switch_fails", "format_fails"}, tts \in TtsResults :
          LET plug1_watts == room_pass.readings.plug1
              shutoff == /\ room_pass.budget_exceeded
                         /\ plug1_watts > plug1_shutoff
                         /\ ~plug_pending
          IN  /\ room_energy' = AddEnergyReading(room_energy, "plug1", plug1_watts)
              /\ IF ~shutoff
                 THEN /\ rpc' = "plug2"
                      /\ room_calls' = <<>>
                      /\ UNCHANGED <<room_counts, event_log, plug_pending, room_wake>>
                 ELSE IF outcome = "switch_fails"
                 THEN \* turn_off raises: except, finally
                      /\ rpc' = "plug2"
                      /\ room_calls' = <<SwitchCall("turn_off", "raises")>>
                      /\ UNCHANGED <<room_counts, event_log, plug_pending, room_wake>>
                 ELSE IF outcome = "format_fails"
                 THEN \* the switch is off, the template raises: except, finally
                      /\ rpc' = "plug2"
                      /\ room_calls' = <<SwitchCall("turn_off", "ok")>>
                      /\ UNCHANGED <<room_counts, event_log, plug_pending, room_wake>>
                 ELSE /\ rpc' = "plug1_wait"
                      /\ room_wake' = room_now + SHUTOFF_RESET_DELAY
                      /\ plug_pending' = TRUE
                      /\ room_calls' = <<SwitchCall("turn_off", "ok"),
                                         Announcement("shutoff_msg", tts)>>
                      /\ room_counts' = IF tts # "raises" THEN Incremented("shutoffs")
                                        ELSE room_counts
                      /\ event_log' = Logged(event_log, "shutoff", "Outlet",
                                             tts # "raises", tts = "sent")
    /\ UNCHANGED <<room_now, room_today, power_enforcement, enforcement,
                   last_alerts, budget_announced, room_pass, room_hist>>
    /\ UNCHANGED restOfRoom

\* _handle_plug_shutoff after its asyncio.sleep: turn_on, finally
RoomPlug1Resume ==
    /\ rpc = "plug1_wait"
    /\ room_now >= room_wake
    /\ \E outcome \in {"ok", "raises"} :
          room_calls' = <<SwitchCall("turn_on", outcome)>>
    /\ plug_pending' = FALSE
    /\ rpc' = "plug2"
    /\ UNCHANGED <<room_now, room_today, power_enforcement, room_energy,
                   room_counts, event_log, enforcement, last_alerts,
                   budget_announced, room_wake, room_pass, room_hist>>
    /\ UNCHANGED restOfRoom

\* plug 2: the reading is added to the ledger; plug2_shutoff is 0
RoomPlug2 ==
    /\ rpc = "plug2"
    /\ room_energy' = AddEnergyReading(room_energy, "plug2", room_pass.readings.plug2)
    /\ rpc' = "outlet"
    /\ room_calls' = <<>>
    /\ UNCHANGED <<room_now, room_today, power_enforcement, room_counts,
                   event_log, enforcement, last_alerts, plug_pending,
                   budget_announced, room_wake, room_pass, room_hist>>
    /\ UNCHANGED restOfRoom

\* the outlet's combined watts against its threshold: _send_outlet_alert
RoomOutletAlert ==
    /\ rpc = "outlet"
    /\ \E outcome \in {"ok", "format_fails"}, tts \in TtsResults :
          LET outlet_total_watts == room_pass.readings.plug1 + room_pass.readings.plug2
              due == /\ room_pass.budget_exceeded
                     /\ outlet_total_watts > outlet_threshold
                     /\ \/ last_alerts.outlet = None
                        \/ room_now - last_alerts.outlet >= ALERT_COOLDOWN
          IN  IF ~due
              THEN /\ rpc' = "room"
                   /\ room_calls' = <<>>
                   /\ UNCHANGED <<room_counts, event_log, enforcement,
                                  last_alerts, room_wake, room_hist>>
              ELSE /\ last_alerts' = [last_alerts EXCEPT !.outlet = room_now]
                   /\ enforcement' = Recorded(EnsuredEnforcement)
                   /\ IF outcome = "format_fails"
                      THEN \* msg_template.format is outside the try
                           /\ RoomPassRaises
                           /\ room_calls' = <<>>
                           /\ UNCHANGED <<room_counts, event_log>>
                      ELSE /\ rpc' = "room"
                           /\ room_calls' = <<Announcement("outlet_warn_msg", tts)>>
                           /\ room_counts' = IF tts # "raises"
                                             THEN Incremented("warnings")
                                             ELSE room_counts
                           /\ event_log' = Logged(event_log, "warning", "Outlet",
                                                  tts # "raises", tts = "sent")
                           /\ UNCHANGED <<room_wake, room_hist>>
    /\ UNCHANGED <<room_now, room_today, power_enforcement, room_energy,
                   plug_pending, budget_announced, room_pass>>
    /\ UNCHANGED restOfRoom

\* the test of _check_energy for the room warning
RoomOverThreshold ==
    /\ room_pass.budget_exceeded
    /\ room_pass.readings.plug1 + room_pass.readings.plug2 > room_threshold

\* the triggers of the phases, on the enforcement state of the room after the
\* warning has been recorded
Phase2Due(state) ==
    /\ power_enforcement.phase2_enabled
    /\ WarningsInWindow(state.warnings, power_enforcement.phase2_time_window_minutes)
           >= power_enforcement.phase2_warning_count
    /\ state.phase < 2
Phase1Due(state) ==
    /\ power_enforcement.phase1_enabled
    /\ WarningsInWindow(state.warnings, power_enforcement.phase1_time_window_minutes)
           >= power_enforcement.phase1_warning_count
    /\ state.phase < 1

\* the room's watts against its threshold: _send_room_alert, up to its end or
\* to the asyncio.sleep of the power cycle that follows a dispatched phase-2
\* announcement
RoomAlert ==
    /\ rpc = "room"
    /\ \E template \in {"ok", "format_fails"}, outcome \in {"ok", "switch_fails"},
          tts \in TtsResults :
          LET over == RoomOverThreshold
              recorded == Recorded(EnsuredEnforcement)
              state == recorded.state
              pe == power_enforcement
              phase2_due == Phase2Due(state)
              phase1_due == Phase1Due(state)
              phase_transition == phase2_due \/ phase1_due
              cooling == /\ ~phase_transition
                         /\ last_alerts.room # None
                         /\ room_now - last_alerts.room < ALERT_COOLDOWN
              phase == EscalatedPhase(state.phase, phase1_due, phase2_due)
              message == IF phase # state.phase /\ template = "ok"
                         THEN IF phase = 2 THEN "phase2_warn_msg" ELSE "phase1_warn_msg"
                         ELSE "room_warn_msg"
              escalated ==
                  [recorded EXCEPT
                      !.state.phase = phase,
                      !.state.last_phase_change =
                          IF phase # state.phase THEN room_now ELSE @,
                      !.state.volume_offset =
                          IF phase >= 1
                          THEN IncrementedVolumeOffset(@, phase1_volume_increment)
                          ELSE @]
              effective_volume ==
                  EffectiveVolume(phase, escalated.state.volume_offset)
              post_send_cb == pe.phase2_enabled /\ phase = 2
          IN  IF ~over
              THEN /\ rpc' = "enforce"
                   /\ room_calls' = <<>>
                   /\ UNCHANGED <<room_counts, event_log, enforcement,
                                  last_alerts, room_wake, room_hist>>
              ELSE IF cooling
              THEN \* the warning is recorded, nothing is announced
                   /\ enforcement' = recorded
                   /\ rpc' = "enforce"
                   /\ room_calls' = <<>>
                   /\ UNCHANGED <<room_counts, event_log, last_alerts,
                                  room_wake, room_hist>>
              ELSE /\ enforcement' = escalated
                   /\ last_alerts' = [last_alerts EXCEPT !.room = room_now]
                   /\ room_hist' =
                         [room_hist EXCEPT !.alerts =
                             Append(@, [at |-> room_now,
                                        transition |-> phase_transition])]
                   /\ IF tts = "sent" /\ post_send_cb /\ outcome = "ok"
                      THEN \* _power_cycle_room_outlets: turn_off, sleep
                           /\ rpc' = "cycle_wait"
                           /\ room_wake' = room_now + phase2_cycle_delay_seconds
                           /\ room_calls' = <<AnnouncementAt(message, tts, effective_volume),
                                              SwitchCall("turn_off", "ok")>>
                           /\ UNCHANGED <<room_counts, event_log>>
                      ELSE /\ rpc' = "enforce"
                           /\ room_calls' =
                                 IF tts = "sent" /\ post_send_cb
                                 THEN <<AnnouncementAt(message, tts, effective_volume),
                                        SwitchCall("turn_off", "raises"),
                                        Announcement("phase2_after_msg", "queued")>>
                                 ELSE <<AnnouncementAt(message, tts, effective_volume)>>
                           /\ room_counts' = IF tts # "raises"
                                             THEN Incremented("warnings")
                                             ELSE room_counts
                           /\ event_log' = Logged(event_log, "warning", "none",
                                                  tts # "raises", tts = "sent")
                           /\ UNCHANGED room_wake
    /\ UNCHANGED <<room_now, room_today, power_enforcement, room_energy,
                   plug_pending, budget_announced, room_pass>>
    /\ UNCHANGED restOfRoom

\* the power cycle after its asyncio.sleep: turn_on, the after message (the
\* media player is still marked as sending, so it is queued), and the end of
\* _send_room_alert
RoomCycleResume ==
    /\ rpc = "cycle_wait"
    /\ room_now >= room_wake
    /\ \E outcome \in {"ok", "raises"} :
          room_calls' = <<SwitchCall("turn_on", outcome),
                          Announcement("phase2_after_msg", "queued")>>
    /\ room_counts' = Incremented("warnings")
    /\ event_log' = Logged(event_log, "warning", "none", TRUE, TRUE)
    /\ rpc' = "enforce"
    /\ UNCHANGED <<room_now, room_today, power_enforcement, room_energy,
                   enforcement, last_alerts, plug_pending, budget_announced,
                   room_wake, room_pass, room_hist>>
    /\ UNCHANGED restOfRoom

\* the end of the pass: _check_breaker_lines and _check_stove_safety, whose
\* announcements can raise and end the pass, then _check_power_enforcement
\* with the quiet-period reset of the phase
RoomPowerEnforcement ==
    /\ rpc = "enforce"
    /\ \E stages \in {"ok", "raises"}, template \in {"ok", "format_fails"},
          tts \in TtsResults :
          LET ensured == EnsuredEnforcement
              current_phase == ensured.state.phase
              reset_minutes == IF current_phase = 2
                               THEN power_enforcement.phase2_reset_minutes
                               ELSE power_enforcement.phase1_reset_minutes
              reset == /\ current_phase > 0
                       /\ CheckPhaseReset(ensured.state.warnings, reset_minutes)
          IN  IF stages = "raises"
              THEN /\ room_calls' = <<>>
                   /\ UNCHANGED enforcement
              ELSE /\ enforcement' =
                          IF reset
                          THEN [ensured EXCEPT !.state.phase = 0,
                                               !.state.last_phase_change = room_now,
                                               !.state.volume_offset = 0]
                          ELSE ensured
                   /\ room_calls' = IF reset /\ template = "ok"
                                    THEN <<Announcement("phase_reset_msg", tts)>>
                                    ELSE <<>>
    \* the end of the pass, or an exception that leaves _check_energy
    /\ RoomPassRaises
    /\ UNCHANGED <<room_now, room_today, power_enforcement, room_energy,
                   room_counts, event_log, last_alerts, plug_pending,
                   budget_announced, room_pass>>
    /\ UNCHANGED restOfRoom

\* the sleep of the loop or of a cycle ends
RoomTimePasses ==
    /\ room_now < room_wake
    /\ room_now' = room_wake
    /\ room_calls' = <<>>
    /\ UNCHANGED <<room_today, power_enforcement, room_energy, room_counts,
                   event_log, enforcement, last_alerts, plug_pending,
                   budget_announced, rpc, room_wake, room_pass, room_hist>>
    /\ UNCHANGED restOfRoom

\* a minute of passes that find both plugs at 0 W and have nothing to do: no
\* new date to take up, no budget announcement to make, and the last warning
\* too recent for any of them to reset the phase
RoomQuietMinute ==
    /\ rpc = "sleep"
    /\ room_now < room_wake
    /\ room_hist.passes < MaxRoomPasses
    /\ room_energy.last_reset_date = room_today
    /\ room_counts.reset_date = room_today
    /\ enforcement.reset_date = room_today
    /\ budget_announced.date = room_today
    /\ RoomDayEnergy(room_energy) >= kwh_budget => Room \in budget_announced.rooms
    /\ \/ enforcement.state.phase = 0
       \/ /\ enforcement.state.warnings # <<>>
          /\ (room_now + 59) - enforcement.state.warnings[Len(enforcement.state.warnings)]
                 < 60 * (IF enforcement.state.phase = 2
                         THEN power_enforcement.phase2_reset_minutes
                         ELSE power_enforcement.phase1_reset_minutes)
    /\ room_now' = room_now + 60
    /\ room_calls' = <<>>
    /\ UNCHANGED <<room_today, power_enforcement, room_energy, room_counts,
                   event_log, enforcement, last_alerts, plug_pending,
                   budget_announced, rpc, room_wake, room_pass, room_hist>>
    /\ UNCHANGED restOfRoom

\* the local date changes while the task sleeps, between two passes or inside
\* a cycle
RoomMidnight ==
    /\ rpc \in {"sleep", "plug1_wait", "cycle_wait"}
    /\ room_hist.days < MaxRoomDays
    /\ room_today' = room_today + 1
    /\ room_hist' = [room_hist EXCEPT !.days = @ + 1]
    /\ room_calls' = <<>>
    /\ UNCHANGED <<room_now, power_enforcement, room_energy, room_counts,
                   event_log, enforcement, last_alerts, plug_pending,
                   budget_announced, rpc, room_wake, room_pass>>
    /\ UNCHANGED restOfRoom

RoomInit ==
    /\ StoveConstructed
    /\ MonitorConstructed
    /\ GateConstructed
    /\ LightsConstructed
    /\ LedgerConstructed
    /\ ConfigConstructed
    /\ FurtherConstructed
    /\ \E loaded_energy \in LoadedEnergy, phase2_count \in {2, 3},
          loaded_state \in LoadedEnforcement :
          \* a room that was warned had reached its budget
          /\ loaded_state # NewEnforcementState => loaded_energy >= kwh_budget
          /\ RoomLoaded(loaded_energy, phase2_count, loaded_state)

RoomNext ==
    \/ RoomPassBegins
    \/ RoomPlug1
    \/ RoomPlug1Resume
    \/ RoomPlug2
    \/ RoomOutletAlert
    \/ RoomAlert
    \/ RoomCycleResume
    \/ RoomPowerEnforcement
    \/ RoomTimePasses
    \/ RoomQuietMinute
    \/ RoomMidnight

SpecRoom == RoomInit /\ [][RoomNext]_vars

(***************************************************************************)
(* Properties of the room's warnings and of the power enforcement.         *)
(***************************************************************************)
\* a room warning event on which both phase triggers hold with the room in
\* phase 0: _send_room_alert is about to run past its cooldown test
BothPhasesDue ==
    /\ rpc = "room"
    /\ RoomOverThreshold
    /\ Recorded(EnsuredEnforcement).state.phase = 0
    /\ Phase1Due(Recorded(EnsuredEnforcement).state)
    /\ Phase2Due(Recorded(EnsuredEnforcement).state)

\* the message of the room warning announced by the last step
RoomWarningMessage == IF room_calls = <<>> THEN "" ELSE room_calls[1].what

C30_LoggedSuccessWasDelivered ==
    \A i \in 1..Len(event_log) :
        event_log[i].tts_succeeded => event_log[i].delivered

\* C23: the enforcement phase of the room is lowered only by the quiet-period
\* reset: on a step that lowers it, the room has a recorded warning and its
\* most recent one is at least the current phase's reset period old.
C23_PhaseLoweredOnlyByQuietReset ==
    [][enforcement'.state.phase < enforcement.state.phase =>
          /\ enforcement.state.warnings # <<>>
          /\ room_now - enforcement.state.warnings[Len(enforcement.state.warnings)] >=
                 60 * (IF enforcement.state.phase = 2
                       THEN power_enforcement.phase2_reset_minutes
                       ELSE power_enforcement.phase1_reset_minutes)]_vars

\* C25: a plug shutoff, an outlet warning or a room warning is triggered for
\* the room only when the room's energy of today has reached its budget.
C25_ActionsOnlyFromBudget ==
    [][(RoomPlug1 \/ RoomOutletAlert \/ RoomAlert) /\ room_calls' # <<>> =>
          RoomDayEnergy(room_energy') >= kwh_budget]_vars

\* no two room warnings are less than ALERT_COOLDOWN apart unless the later
\* one comes with a transition to phase 1 or 2
RoomWarningsSpaced ==
    \A i, j \in 1..Len(room_hist.alerts) :
        /\ i < j
        /\ room_hist.alerts[j].at - room_hist.alerts[i].at < ALERT_COOLDOWN
        => room_hist.alerts[j].transition

\* a pass ends on which the room was over its budget and over its threshold,
\* with no room warning in the ALERT_COOLDOWN seconds before the pass
RoomWarningDueOnPass ==
    /\ room_hist'.passes = room_hist.passes + 1
    /\ room_pass'.budget_exceeded
    /\ room_pass'.readings.plug1 + room_pass'.readings.plug2 > room_threshold
    /\ \A i \in 1..Len(room_hist.alerts) :
          \/ room_hist.alerts[i].at >= room_pass'.started
          \/ room_hist.alerts[i].at + ALERT_COOLDOWN <= room_pass'.started

\* C22: a room warning is issued on every tick on which the room, over its
\* budget, exceeds its threshold with no room warning in the previous
\* ALERT_COOLDOWN seconds, and no two room warnings are less than
\* ALERT_COOLDOWN apart unless the later one comes with a phase transition.
C22_RoomWarningOnFirstTickThenSpaced ==
    /\ []RoomWarningsSpaced
    /\ [][RoomWarningDueOnPass =>
             \E i \in 1..Len(room_hist'.alerts) :
                 room_hist'.alerts[i].at >= room_pass'.started]_vars

\* the switch calls of the enforcement power cycle issued by the last step
PowerCycleIssued ==
    \E i \in 1..Len(room_calls) : room_calls[i].kind = "turn_off"

\* C31: the outlets of the room are power-cycled only on the room warning
\* that moves the room into phase 2; a warning issued while the room is
\* already in phase 2 does not power-cycle them again.
C31_PowerCycleOnlyOnEntryToPhase2 ==
    [][RoomAlert /\ PowerCycleIssued' =>
          /\ EnsuredEnforcement.state.phase < 2
          /\ enforcement'.state.phase = 2]_vars

(***************************************************************************)
(* SpecCycle: _power_cycle_room_outlets.  An entity id is a record of its  *)
(* domain and its object id ("switch.a" is [domain |-> "switch", id |->    *)
(* "a"]); a key the outlet does not hold, or holds as None, is NoEntity.   *)
(***************************************************************************)
NoEntity == [domain |-> "", id |-> ""]

\* the entity ids a switch key of an outlet can hold
CycleEntities ==
    {NoEntity, [domain |-> "switch", id |-> "a"], [domain |-> "switch", id |-> "b"],
     [domain |-> "sensor", id |-> "c"]}

\* the outlets _validate_energy_config stores: both plug switches for type
\* "outlet", plug1_switch for a stove, none for a microwave, switch_entity
\* for a light
CycleOutlets ==
    [type : {"outlet"}, plug1_switch : CycleEntities, plug2_switch : CycleEntities,
     switch_entity : {NoEntity}]
    \cup [type : {"stove"}, plug1_switch : CycleEntities, plug2_switch : {NoEntity},
          switch_entity : {NoEntity}]
    \cup [type : {"microwave"}, plug1_switch : {NoEntity}, plug2_switch : {NoEntity},
          switch_entity : {NoEntity}]
    \cup [type : {"light"}, plug1_switch : {NoEntity}, plug2_switch : {NoEntity},
          switch_entity : CycleEntities]

CycleRooms ==
    UNION {[1..n -> CycleOutlets] : n \in 0..MaxCycleOutlets}

\* switch and switch.startswith("switch.")
IsSwitch(entity) == entity # NoEntity /\ entity.domain = "switch"

\* outlet.get("type") in ("stove", "microwave")
SkippedForSafety_Never(outlet) == FALSE
SkippedForSafety(outlet) == outlet.type \in {"stove", "microwave"}

\* the inner loop over plug1_switch, plug2_switch and switch_entity
RECURSIVE WithSwitches(_, _)
WithSwitches(switch_entities, candidates) ==
    IF candidates = <<>> THEN switch_entities
    ELSE LET switch == Head(candidates)
             seen == {switch_entities[i] : i \in 1..Len(switch_entities)}
         IN  WithSwitches(IF IsSwitch(switch) /\ switch \notin seen
                          THEN Append(switch_entities, switch)
                          ELSE switch_entities,
                          Tail(candidates))

\* the loop over room["outlets"]
RECURSIVE SwitchEntities(_, _)
SwitchEntities(switch_entities, outlets) ==
    IF outlets = <<>> THEN switch_entities
    ELSE LET outlet == Head(outlets)
         IN  SwitchEntities(
                 IF SkippedForSafety(outlet) THEN switch_entities
                 ELSE WithSwitches(switch_entities,
                                   <<outlet.plug1_switch, outlet.plug2_switch,
                                     outlet.switch_entity>>),
                 Tail(outlets))

CycleCall(service, entity_id, result) ==
    [service |-> service, entity_id |-> entity_id, result |-> result,
     at |-> cycle_now]

\* _power_cycle_room_outlets up to its asyncio.sleep, or to its end when the
\* room has no switch or the turn_off call raises
PowerCycleBegins ==
    /\ cycle_pc = "start"
    /\ \E result \in {"ok", "raises"} :
          LET switch_entities == SwitchEntities(<<>>, cycle_outlets)
          IN  IF switch_entities = <<>>
              THEN /\ cycle_pc' = "done"
                   /\ UNCHANGED <<cycle_calls, cycle_wake>>
              ELSE /\ cycle_calls' =
                          Append(cycle_calls,
                                 CycleCall("turn_off", switch_entities, result))
                   /\ IF result = "ok"
                      THEN /\ cycle_pc' = "sleep"
                           /\ cycle_wake' = cycle_now + phase2_cycle_delay_seconds
                      ELSE /\ cycle_pc' = "done"
                           /\ UNCHANGED cycle_wake
    /\ UNCHANGED <<cycle_outlets, cycle_now>>
    /\ UNCHANGED restOfCycle

\* after the sleep: the turn_on call, whose exception is logged
PowerCycleResumes ==
    /\ cycle_pc = "sleep"
    /\ cycle_now >= cycle_wake
    /\ \E result \in {"ok", "raises"} :
          cycle_calls' =
              Append(cycle_calls,
                     CycleCall("turn_on", SwitchEntities(<<>>, cycle_outlets), result))
    /\ cycle_pc' = "done"
    /\ UNCHANGED <<cycle_outlets, cycle_now, cycle_wake>>
    /\ UNCHANGED restOfCycle

\* a second of the sleep
CycleTimePasses ==
    /\ cycle_pc = "sleep"
    /\ cycle_now < cycle_wake
    /\ cycle_now' = cycle_now + 1
    /\ UNCHANGED <<cycle_outlets, cycle_pc, cycle_wake, cycle_calls>>
    /\ UNCHANGED restOfCycle

CycleInit ==
    /\ StoveConstructed
    /\ MonitorConstructed
    /\ GateConstructed
    /\ LightsConstructed
    /\ LedgerConstructed
    /\ ConfigConstructed
    /\ RoomConstructed
    /\ KwhConstructed
    /\ IntradayConstructed
    /\ cycle_outlets \in CycleRooms
    /\ cycle_pc = "start"
    /\ cycle_now = 0
    /\ cycle_wake = 0
    /\ cycle_calls = <<>>

CycleNext == PowerCycleBegins \/ PowerCycleResumes \/ CycleTimePasses

SpecCycle == CycleInit /\ [][CycleNext]_vars

\* the 'switch.' entities configured on the outlets of the given types
SwitchesOn(types) ==
    {e \in CycleEntities :
        /\ e # NoEntity
        /\ e.domain = "switch"
        /\ \E i \in 1..Len(cycle_outlets) :
              /\ cycle_outlets[i].type \in types
              /\ e \in {cycle_outlets[i].plug1_switch, cycle_outlets[i].plug2_switch,
                        cycle_outlets[i].switch_entity}}

\* a service call names every one of the given entities exactly once
NamesExactlyOnce(call, entities) ==
    /\ {call.entity_id[i] : i \in 1..Len(call.entity_id)} = entities
    /\ Len(call.entity_id) = Cardinality(entities)

\* the calls are a turn_off of the given entities, followed after the delay
\* by a turn_on of the same entities unless the turn_off call raised
OffThenOn(entities) ==
    /\ cycle_calls # <<>> =>
          /\ cycle_calls[1].service = "turn_off"
          /\ NamesExactlyOnce(cycle_calls[1], entities)
    /\ Len(cycle_calls) <= 2
    /\ Len(cycle_calls) = 2 =>
          /\ cycle_calls[1].result = "ok"
          /\ cycle_calls[2].service = "turn_on"
          /\ NamesExactlyOnce(cycle_calls[2], entities)
          /\ cycle_calls[2].at >= cycle_calls[1].at + phase2_cycle_delay_seconds
    /\ cycle_pc = "done" /\ cycle_calls # <<>> /\ cycle_calls[1].result = "ok" =>
          Len(cycle_calls) = 2

\* C32 as stated: the power cycle names no switch configured on a stove or
\* microwave outlet, and it turns every 'switch.' entity of the other outlets
\* off and, after the delay, on again, each exactly once.
C32_CycleSparesStoveAndCompletes ==
    /\ \A i \in 1..Len(cycle_calls) :
          \A k \in 1..Len(cycle_calls[i].entity_id) :
              cycle_calls[i].entity_id[k] \notin SwitchesOn({"stove", "microwave"})
    /\ OffThenOn(SwitchesOn({"outlet", "light"}))
    /\ cycle_pc = "done" /\ SwitchesOn({"outlet", "light"}) # {} => Len(cycle_calls) = 2

\* C32: the power cycle issues its calls for exactly the 'switch.' entities
\* configured on the outlets that are neither stove nor microwave, each named
\* once (a stove's switch is named only when another outlet holds it too):
\* one turn_off call and, after the delay and only if the turn_off call did
\* not raise, one turn_on call; with no such entity it issues no call.
C32_CycleOfTheOtherOutlets ==
    /\ OffThenOn(SwitchesOn({"outlet", "light"}))
    /\ SwitchesOn({"outlet", "light"}) = {} => cycle_calls = <<>>
    /\ cycle_pc = "done" /\ SwitchesOn({"outlet", "light"}) # {} => cycle_calls # <<>>

\* a finished power cycle of a room with a stove switch and two other
\* switches, one of them held twice, that were turned off and on again
C32_Witness ==
    /\ cycle_pc = "done"
    /\ Len(cycle_calls) = 2
    /\ cycle_calls[2].result = "ok"
    /\ Len(cycle_outlets) = 2
    /\ cycle_outlets[1].type = "stove"
    /\ cycle_outlets[1].plug1_switch = [domain |-> "switch", id |-> "a"]
    /\ cycle_outlets[2].type = "outlet"
    /\ cycle_outlets[2].plug1_switch = [domain |-> "switch", id |-> "b"]
    /\ cycle_outlets[2].plug2_switch = [domain |-> "switch", id |-> "b"]

\* the last warning recorded for the room is at least the reset period of
\* the room's phase old
QuietPeriodOver ==
    /\ enforcement.reset_date = room_today
    /\ enforcement.state.phase > 0
    /\ enforcement.state.warnings # <<>>
    /\ room_now - enforcement.state.warnings[Len(enforcement.state.warnings)] >=
           60 * (IF enforcement.state.phase = 2
                 THEN power_enforcement.phase2_reset_minutes
                 ELSE power_enforcement.phase1_reset_minutes)

\* C33: a tick that ends with the room in phase 1 or 2, its most recent
\* warning at least the phase's reset period old and no new warning recorded
\* leaves the room in phase 0 with volume offset 0.
C33_QuietPeriodResetsPhase ==
    [][/\ QuietPeriodOver
       /\ room_hist'.passes = room_hist.passes + 1
       /\ enforcement'.state.warnings = enforcement.state.warnings
       =>
          /\ enforcement'.state.phase = 0
          /\ enforcement'.state.volume_offset = 0]_vars

\* the last step issued a room warning (one that passed the cooldown)
RoomWarningIssued == Len(room_hist'.alerts) = Len(room_hist.alerts) + 1

\* C34: the volume offset of the room is within 0..100 and is 0 in phase 0; a
\* room warning issued with the room then in phase 1 or 2 adds the configured
\* increment to it, saturating at 100, one issued with the room in phase 0
\* leaves it, and nothing else makes it grow; the warning is announced at
\* min(100, base + offset) percent, in phase 2 at no more than
\* phase2_max_volume percent.
C34_VolumeOffsetAndEffectiveVolume ==
    /\ [](/\ enforcement.state.volume_offset \in 0..100
          /\ enforcement.state.phase = 0 => enforcement.state.volume_offset = 0)
    /\ [][/\ RoomWarningIssued =>
               /\ enforcement'.state.volume_offset =
                      IF enforcement'.state.phase >= 1
                      THEN Min(100, EnsuredEnforcement.state.volume_offset
                                        + phase1_volume_increment)
                      ELSE EnsuredEnforcement.state.volume_offset
               /\ room_calls'[1].volume =
                      IF enforcement'.state.phase = 2
                      THEN Min(phase2_max_volume,
                               Min(100, room_volume + enforcement'.state.volume_offset))
                      ELSE Min(100, room_volume + enforcement'.state.volume_offset)
          /\ enforcement'.state.volume_offset > enforcement.state.volume_offset =>
               RoomWarningIssued /\ enforcement'.state.phase >= 1]_vars

\* a second room warning in phase 2 has found the offset at 100 and left it
\* there, and was announced at the phase-2 maximum
C34_Witness ==
    /\ Len(room_hist.alerts) = 2
    /\ room_hist.alerts[2].at = room_now
    /\ enforcement.state.phase = 2
    /\ enforcement.state.volume_offset = 100
    /\ rpc \in {"enforce", "cycle_wait"}
    /\ room_calls # <<>>
    /\ room_calls[1].volume = phase2_max_volume

\* the entries of a warning log recorded at the given time
RecordedAt(warnings, t) == Len(SelectSeq(warnings, LAMBDA ts : ts = t))

\* C35: a room warning event that does not issue a warning, because the
\* cooldown suppresses it, adds no entry to the room's enforcement warning
\* log.
C35_SuppressedWarningIsNotRecorded ==
    [][RoomAlert /\ ~RoomWarningIssued =>
          RecordedAt(enforcement'.state.warnings, room_now)
              <= RecordedAt(enforcement.state.warnings, room_now)]_vars

(***************************************************************************)
(* SpecKwh: the kWh milestones of the room and the whole-home limit in     *)
(* _check_power_enforcement.                                               *)
(***************************************************************************)
\* power_enforcement["room_kwh_intervals"], sorted
room_kwh_intervals == <<5, 10>>

\* the energy the ledger file can hold for the room when it is loaded, and
\* what a pass can add to it
KwhLoadedEnergy == {0, 4, 11}
KwhPerPass == {0, 1}

\* what becomes of an alert: its template cannot be formatted, or the
\* announcement is sent, queued or fails
AlertOutcomes == {"format_fails", "sent", "queued", "raises"}

\* the energy of the local date in the ledger
KwhEnergyToday == IF kwh_ledger.date = kwh_today THEN kwh_ledger.energy ELSE 0

\* the milestones and the limit that the energy of the local date has reached
KwhReachedToday ==
    {[date |-> kwh_today, kind |-> "room", limit |-> room_kwh_intervals[i]] :
        i \in {j \in 1..Len(room_kwh_intervals) :
                  KwhEnergyToday >= room_kwh_intervals[j]}}
    \cup (IF KwhEnergyToday >= home_kwh_limit
          THEN {[date |-> kwh_today, kind |-> "home", limit |-> home_kwh_limit]}
          ELSE {})

\* _ensure_enforcement_state_for_today
EnsuredKwhState ==
    IF kwh_state.reset_date # kwh_today
    THEN [alerts_sent |-> {}, home_sent |-> FALSE, reset_date |-> kwh_today]
    ELSE kwh_state

\* async_should_send_room_kwh_alert: the first interval reached and not yet
\* marked, or None
IntervalHit(room_kwh, alerts_sent) ==
    LET due == {i \in 1..Len(room_kwh_intervals) :
                   /\ room_kwh >= room_kwh_intervals[i]
                   /\ room_kwh_intervals[i] \notin alerts_sent}
    IN  IF due = {} THEN None
        ELSE room_kwh_intervals[CHOOSE i \in due : \A j \in due : i <= j]

KwhAlert(kind, limit, outcome) ==
    [date |-> kwh_today, kind |-> kind, limit |-> limit, result |-> outcome]

\* the start of a pass: the rollover of the ledger and the readings
KwhPassBegins ==
    /\ kwh_pc = "sleep"
    /\ kwh_hist.passes < MaxKwhPasses
    /\ \E added \in KwhPerPass :
          kwh_ledger' =
              [energy |-> (IF kwh_ledger.date # kwh_today THEN 0
                           ELSE kwh_ledger.energy) + added,
               date |-> kwh_today]
    /\ kwh_pc' = "enforce"
    /\ kwh_calls' = <<>>
    /\ UNCHANGED <<kwh_today, kwh_state, kwh_hist>>
    /\ UNCHANGED restOfKwh

\* the end of the pass: the earlier stages, which can raise, and the kWh
\* alerts of _check_power_enforcement
KwhEnforcement ==
    /\ kwh_pc = "enforce"
    /\ \E stages \in {"ok", "raises"}, room_alert \in AlertOutcomes,
          home_alert \in AlertOutcomes :
          LET ensured == EnsuredKwhState
              room_kwh == kwh_ledger.energy
              interval_hit == IntervalHit(room_kwh, ensured.alerts_sent)
              marked == IF interval_hit = None THEN ensured
                        ELSE [ensured EXCEPT !.alerts_sent = @ \cup {interval_hit}]
              room_calls_made ==
                  IF interval_hit # None /\ room_alert \in {"sent", "queued", "raises"}
                  THEN <<KwhAlert("room", interval_hit, room_alert)>>
                  ELSE <<>>
              room_raises == interval_hit # None /\ room_alert = "format_fails"
              home_due == ~marked.home_sent /\ kwh_ledger.energy >= home_kwh_limit
              home_calls_made ==
                  IF home_due /\ home_alert \in {"sent", "queued", "raises"}
                  THEN <<KwhAlert("home", home_kwh_limit, home_alert)>>
                  ELSE <<>>
          IN  IF stages = "raises"
              THEN /\ kwh_calls' = <<>>
                   /\ UNCHANGED kwh_state
              ELSE IF room_raises
              THEN /\ kwh_calls' = <<>>
                   /\ kwh_state' = marked
              ELSE /\ kwh_calls' = room_calls_made \o home_calls_made
                   /\ kwh_state' = [marked EXCEPT !.home_sent = @ \/ home_due]
    /\ kwh_hist' =
          [kwh_hist EXCEPT
              !.passes = @ + 1,
              !.reached = @ \cup KwhReachedToday,
              !.announced =
                  @ \o SelectSeq(kwh_calls', LAMBDA c : c.result # "raises")]
    /\ kwh_pc' = "sleep"
    /\ UNCHANGED <<kwh_today, kwh_ledger>>
    /\ UNCHANGED restOfKwh

\* the local date changes, between two passes or inside one
KwhMidnight ==
    /\ kwh_hist.days < MaxKwhDays
    /\ kwh_today' = kwh_today + 1
    /\ kwh_hist' = [kwh_hist EXCEPT !.days = @ + 1]
    /\ kwh_calls' = <<>>
    /\ UNCHANGED <<kwh_ledger, kwh_state, kwh_pc>>
    /\ UNCHANGED restOfKwh

KwhInit ==
    /\ StoveConstructed
    /\ MonitorConstructed
    /\ GateConstructed
    /\ LightsConstructed
    /\ LedgerConstructed
    /\ ConfigConstructed
    /\ RoomConstructed
    /\ CycleConstructed
    /\ IntradayConstructed
    /\ \E loaded_energy \in KwhLoadedEnergy : KwhLoaded(loaded_energy)

KwhNext == KwhPassBegins \/ KwhEnforcement \/ KwhMidnight

SpecKwh == KwhInit /\ [][KwhNext]_vars

\* the announcements of an alert made on a date
AnnouncedOn(date, kind, limit) ==
    Len(SelectSeq(kwh_hist.announced,
                  LAMBDA c : c.date = date /\ c.kind = kind /\ c.limit = limit))

\* the announcements of an alert made by the pass that ends in this step
AnnouncedNow(kind, limit) ==
    AnnouncedOn(kwh_today, kind, limit)' - AnnouncedOn(kwh_today, kind, limit)

\* the pass that ends in this step is the first one of the local date at
\* whose end the energy of the date is at or above the limit
FirstTickAtOrAbove(kind, limit) ==
    /\ KwhEnergyToday >= limit
    /\ [date |-> kwh_today, kind |-> kind, limit |-> limit] \notin kwh_hist.reached

\* C36: per local date, a pass announces a milestone of the room only if
\* it is the first pass of the date with the room's energy of the date at or
\* above the milestone, and then once; and a pass announces the home limit,
\* once, exactly when it is the first pass of the date with the energy of
\* the date at or above the limit.
C36_KwhAlertsOnFirstTickOnly ==
    [][kwh_pc = "enforce" /\ kwh_pc' = "sleep" =>
          /\ \A i \in 1..Len(room_kwh_intervals) :
                /\ AnnouncedNow("room", room_kwh_intervals[i]) <= 1
                /\ AnnouncedNow("room", room_kwh_intervals[i]) = 1 =>
                      FirstTickAtOrAbove("room", room_kwh_intervals[i])
          /\ AnnouncedNow("home", home_kwh_limit) =
                IF FirstTickAtOrAbove("home", home_kwh_limit) THEN 1 ELSE 0]_vars

\* the room's half of C36 alone
C36_RoomMilestoneOnFirstTickOnly ==
    [][kwh_pc = "enforce" /\ kwh_pc' = "sleep" =>
          \A i \in 1..Len(room_kwh_intervals) :
              /\ AnnouncedNow("room", room_kwh_intervals[i]) <= 1
              /\ AnnouncedNow("room", room_kwh_intervals[i]) = 1 =>
                    FirstTickAtOrAbove("room", room_kwh_intervals[i])]_vars

\* without a change of date and without a failure, a mark is set at most
\* once per date, so no alert is announced twice on a date
KwhAnnouncedAtMostOnce ==
    \A d \in 0..MaxKwhDays :
        /\ \A i \in 1..Len(room_kwh_intervals) :
              AnnouncedOn(d, "room", room_kwh_intervals[i]) <= 1
        /\ AnnouncedOn(d, "home", home_kwh_limit) <= 1

(***************************************************************************)
(* Further claims about the cooking safety state machine, under SpecStove. *)
(***************************************************************************)
\* C37: a stove whose countdown is in the cooking-window or final-warning
\* phase, or that has a pending presence start-window, has the debounced
\* state "on".
C37_CountdownOnlyWhileStateOn ==
    (stove.timer_phase # "none" \/ stove.presence_window_start # None) =>
        stove.state = "on"

\* the debounced state goes from one value to the other in this pass
StoveFlipsTo(value) == IsStovePass /\ stove.state # value /\ stove'.state = value

\* the passes have read the stove above its threshold for this long without
\* a break, the pass of this step included; likewise at or below it
ReadAboveFor(seconds) ==
    obs'.above_from # None /\ now' - obs'.above_from >= seconds
ReadBelowFor(seconds) ==
    obs'.below_from # None /\ now' - obs'.below_from >= seconds

\* at most one of the two dwell timers is set
OneDwellTimer ==
    stove.power_above_since = None \/ stove.power_below_since = None

\* C38: the debounced state flips to "on" only in a pass by which the
\* wattage has been above the threshold on every pass for at least
\* stove_on_debounce_seconds, and to "off" only in a pass by which it has
\* been at or below the threshold on every pass for at least
\* stove_off_debounce_seconds; and at most one dwell timer is set.
C38_FlipsOnlyAfterDwell ==
    /\ []OneDwellTimer
    /\ [][/\ StoveFlipsTo("on") => ReadAboveFor(cfg.stove_on_debounce_seconds)
          /\ StoveFlipsTo("off") => ReadBelowFor(stove_off_debounce_seconds)]_vars

\* the flip to "off" alone
C38_OffOnlyAfterDwell ==
    [][StoveFlipsTo("off") => ReadBelowFor(stove_off_debounce_seconds)]_vars

\* the flip to "on" alone, the interlock's restore step set aside
C38_OnOnlyAfterDwellOrRestore ==
    [][StoveFlipsTo("on") /\ ~stove.powered_off_by_microwave =>
          ReadAboveFor(cfg.stove_on_debounce_seconds)]_vars

\* what the per-stove loop can issue: the on/off, countdown and auto-off
\* announcements and the countdown's turn_off
StoveLoopCalls ==
    {"stove_on_msg", "stove_off_msg", "stove_timer_started_msg",
     "stove_15min_warn_msg", "stove_30sec_warn_msg", "stove_auto_off_msg",
     "turn_off@countdown"}

\* C39: a pass that finds the stove suppressed by the microwave interlock
\* and leaves it suppressed changes nothing of the stove's state (debounced
\* state, dwell timers, presence tracking, countdown) and issues none of the
\* per-stove loop's announcements or its turn_off; a pass ends the
\* suppression only by the interlock's restore step, with the microwave's
\* wattage not above its threshold and the switch turned on.
C39_SuppressedStoveIsFrozen ==
    [][IsStovePass /\ stove.powered_off_by_microwave =>
          IF stove'.powered_off_by_microwave
          THEN /\ stove' = stove
               /\ \A i \in 1..Len(calls') : calls'[i] \notin StoveLoopCalls
          ELSE /\ ~(inp'.mw_power > microwave_power_threshold)
               /\ IssuedNext("turn_on")]_vars

\* C39 witness: a countdown was running when the interlock cut the stove; a
\* later pass has found the stove suppressed with its cooking time elapsed
\* and has issued nothing.
C39_Witness ==
    /\ stove.powered_off_by_microwave
    /\ stove.timer_phase = "15min"
    /\ now - stove.timer_start >= cooking_time_sec
    /\ inp.presence = "off"
    /\ calls = <<>>

(***************************************************************************)
(* SpecIntraday: ConfigManager.record_intraday_power.                      *)
(***************************************************************************)
\* the readings recorded (W)
IntradayWatts == {10, 20}
\* seconds between two readings of the clock
IntradayGaps == {30, 60}

\* now.strftime("%Y-%m-%d %H:%M"): the minute the second lies in
MinuteKey(seconds) == seconds \div 60

\* history[-n:]
LastEntries(history, n) ==
    IF Len(history) > n
    THEN SubSeq(history, Len(history) - n + 1, Len(history))
    ELSE history

\* the entity's list, empty when the dictionary has no entry for it
IntradayHistoryOf(entity_id) ==
    IF entity_id \in DOMAIN intraday_history
    THEN intraday_history[entity_id] ELSE <<>>

\* record_intraday_power(entity_id, watts)
RecordIntradayPower ==
    \E entity_id \in IntradayEntities, watts \in IntradayWatts :
        LET minute_key == MinuteKey(intraday_now)
            entries == IntradayHistoryOf(entity_id)
        IN  /\ IF /\ minute_key = intraday_last_minute
                  /\ entity_id \in DOMAIN intraday_history
               THEN /\ intraday_history' =
                          IF entries # <<>>
                          THEN [intraday_history EXCEPT
                                   ![entity_id][Len(entries)] = <<minute_key, watts>>]
                          ELSE intraday_history
                    /\ UNCHANGED intraday_last_minute
               ELSE /\ intraday_last_minute' = minute_key
                    /\ intraday_history' =
                          [e \in DOMAIN intraday_history \cup {entity_id} |->
                              IF e = entity_id
                              THEN LastEntries(Append(entries, <<minute_key, watts>>),
                                               IntradayKept)
                              ELSE intraday_history[e]]
            /\ intraday_recorded' =
                  [intraday_recorded EXCEPT
                      ![entity_id] = {p \in @ : p[1] # minute_key}
                                         \cup {<<minute_key, watts>>}]
            /\ UNCHANGED intraday_now
            /\ UNCHANGED restOfIntraday

IntradayTimePasses ==
    /\ \E gap \in IntradayGaps :
          /\ MinuteKey(intraday_now + gap) <= MaxIntradayMinute
          /\ intraday_now' = intraday_now + gap
    /\ UNCHANGED <<intraday_history, intraday_last_minute, intraday_recorded>>
    /\ UNCHANGED restOfIntraday

IntradayInit ==
    /\ StoveConstructed
    /\ MonitorConstructed
    /\ GateConstructed
    /\ LightsConstructed
    /\ LedgerConstructed
    /\ ConfigConstructed
    /\ RoomConstructed
    /\ FurtherConstructed

IntradayNext == RecordIntradayPower \/ IntradayTimePasses

SpecIntraday == IntradayInit /\ [][IntradayNext]_vars

\* the newest IntradayKept minutes in which the entity was recorded, each
\* with the last watts recorded in it
NewestRecorded(entity_id) ==
    {p \in intraday_recorded[entity_id] :
        Cardinality({q \in intraday_recorded[entity_id] : q[1] > p[1]})
            < IntradayKept}

\* the entity's history is within the cap and has no two entries of one
\* minute
IntradayCappedAndDistinct ==
    \A e \in IntradayEntities :
        LET entries == IntradayHistoryOf(e)
        IN  /\ Len(entries) <= IntradayKept
            /\ \A i, j \in 1..Len(entries) : entries[i][1] = entries[j][1] => i = j

\* C40: every entity's history holds at most IntradayKept entries, at most
\* one per minute, and for each of the newest IntradayKept minutes in which
\* the entity was recorded an entry with the last watts recorded for it in
\* that minute, whatever was recorded for the other entities.
C40_IntradayHistoryPerEntity ==
    /\ IntradayCappedAndDistinct
    /\ \A e \in IntradayEntities :
          \A p \in NewestRecorded(e) :
              \E i \in 1..Len(IntradayHistoryOf(e)) : IntradayHistoryOf(e)[i] = p

====
